---------------------------- MODULE Spec2Model ----------------------------
(***************************************************************************)
(* Study-time allocation and session scheduling of SmartStudy_Assistance:  *)
(* the enhanced endpoint and generate_enhanced_fallback_timetable          *)
(* (ai-backend/main.py), TimetableGenerator (models/timetable_generator.py)*)
(* and generate_fallback_timetable (ai-backend/main.py).                   *)
(***************************************************************************)
EXTENDS Integers, Sequences, FiniteSets, TLC

(***************************************************************************)
(* Python float arithmetic.  The allocators compute                        *)
(*     int((weight / total_weight) * total_hours)                          *)
(* in IEEE-754 binary64: every / and * rounds its exact result to 53       *)
(* significant bits, ties to even, and int() truncates.  A float is        *)
(* modelled exactly, as m * 2^e with the natural number m kept as a        *)
(* little-endian sequence of limbs.                                        *)
(***************************************************************************)
LimbBits == 13
MantissaBits == 53
Base == 2^LimbBits

RECURSIVE BitLenSmall(_)
BitLenSmall(x) == IF x = 0 THEN 0 ELSE 1 + BitLenSmall(x \div 2)

RECURSIVE Norm(_)
Norm(N) ==
    IF N = <<>> THEN <<>>
    ELSE IF N[Len(N)] = 0 THEN Norm(SubSeq(N, 1, Len(N) - 1)) ELSE N

RECURSIVE FromSmall(_)
FromSmall(x) == IF x = 0 THEN <<>> ELSE <<x % Base>> \o FromSmall(x \div Base)

RECURSIVE ToSmall(_)
ToSmall(N) == IF N = <<>> THEN 0 ELSE Head(N) + Base * ToSmall(Tail(N))

BitLength(N) ==
    LET n == Norm(N)
    IN  IF n = <<>> THEN 0
        ELSE LimbBits * (Len(n) - 1) + BitLenSmall(n[Len(n)])

RECURSIVE MulCarry(_, _, _)
MulCarry(N, c, carry) ==
    IF N = <<>> THEN FromSmall(carry)
    ELSE LET t == Head(N) * c + carry
         IN  <<t % Base>> \o MulCarry(Tail(N), c, t \div Base)

MulSmall(N, c) == Norm(MulCarry(N, c, 0))

RECURSIVE AddCarry(_, _, _)
AddCarry(A, B, carry) ==
    IF A = <<>> /\ B = <<>> THEN FromSmall(carry)
    ELSE LET a == IF A = <<>> THEN 0 ELSE Head(A)
             b == IF B = <<>> THEN 0 ELSE Head(B)
             t == a + b + carry
         IN  <<t % Base>> \o AddCarry(IF A = <<>> THEN <<>> ELSE Tail(A),
                                      IF B = <<>> THEN <<>> ELSE Tail(B),
                                      t \div Base)

Add(A, B) == Norm(AddCarry(A, B, 0))

Zeros(j) == [i \in 1..j |-> 0]

RECURSIVE Mul(_, _)
Mul(A, B) ==
    IF B = <<>> THEN <<>>
    ELSE Add(MulSmall(A, Head(B)), Norm(Zeros(1) \o Mul(A, Tail(B))))

\* Short division by a small divisor, most significant limb first.
RECURSIVE DivStep(_, _, _, _)
DivStep(N, b, i, r) ==
    IF i = 0 THEN [q |-> <<>>, r |-> r]
    ELSE LET cur  == r * Base + N[i]
             rest == DivStep(N, b, i - 1, cur % b)
         IN  [q |-> Append(rest.q, cur \div b), r |-> rest.r]

DivSmall(N, b) ==
    LET d == DivStep(N, b, Len(N), 0) IN [q |-> Norm(d.q), r |-> d.r]

ShiftLeft(N, k) ==
    Norm(Zeros(k \div LimbBits) \o MulSmall(N, 2^(k % LimbBits)))

ShiftRight(N, k) ==
    LET j == k \div LimbBits
    IN  IF j >= Len(N) THEN <<>>
        ELSE DivSmall(SubSeq(N, j + 1, Len(N)), 2^(k % LimbBits)).q

Bit(N, i) ==
    LET j == i \div LimbBits + 1
    IN  IF j > Len(N) THEN 0 ELSE (N[j] \div 2^(i % LimbBits)) % 2

LowBitsNonZero(N, k) ==
    LET j == k \div LimbBits
    IN  \/ \E i \in 1..j : i <= Len(N) /\ N[i] # 0
        \/ j + 1 <= Len(N) /\ N[j + 1] % 2^(k % LimbBits) # 0

\* Round m * 2^e to 53 significant bits, ties to even; sticky says that the
\* exact value lies strictly above m * 2^e.
RoundFloat(N, e, sticky) ==
    LET L == BitLength(N)
    IN  IF L <= MantissaBits THEN [m |-> Norm(N), e |-> e]
        ELSE LET d    == L - MantissaBits
                 M    == ShiftRight(N, d)
                 half == Bit(N, d - 1) = 1
                 low  == LowBitsNonZero(N, d - 1) \/ sticky
                 up   == half /\ (low \/ Bit(M, 0) = 1)
             IN  [m |-> IF up THEN Add(M, <<1>>) ELSE M, e |-> e + d]

FloatFromInt(x) == [m |-> FromSmall(x), e |-> 0]

\* a / b for integers a >= 0, b > 0 (Python true division, correctly rounded).
FloatDiv(a, b) ==
    IF a = 0 THEN FloatFromInt(0)
    ELSE LET k  == MantissaBits + 2 - BitLenSmall(a) + BitLenSmall(b)
             qr == DivSmall(ShiftLeft(FromSmall(a), k), b)
         IN  RoundFloat(qr.q, 0 - k, qr.r # 0)

FloatMul(x, y) == RoundFloat(Mul(x.m, y.m), x.e + y.e, FALSE)

\* A < B for normalised limb sequences.
RECURSIVE LessFrom(_, _, _)
LessFrom(A, B, i) ==
    IF i = 0 THEN FALSE
    ELSE IF A[i] # B[i] THEN A[i] < B[i]
    ELSE LessFrom(A, B, i - 1)

Less(A, B) ==
    IF Len(A) # Len(B) THEN Len(A) < Len(B) ELSE LessFrom(A, B, Len(A))

\* A - B for A >= B.
RECURSIVE SubBorrow(_, _, _)
SubBorrow(A, B, borrow) ==
    IF A = <<>> THEN <<>>
    ELSE LET b == IF B = <<>> THEN 0 ELSE Head(B)
             t == Head(A) - b - borrow
         IN  <<t % Base>> \o SubBorrow(Tail(A), IF B = <<>> THEN <<>> ELSE Tail(B),
                                       IF t < 0 THEN 1 ELSE 0)

Sub(A, B) == Norm(SubBorrow(A, B, 0))

\* The greatest digit d in lo..hi with d * D <= N, by bisection.
RECURSIVE Digit(_, _, _, _)
Digit(N, D, lo, hi) ==
    IF lo = hi THEN lo
    ELSE LET mid == (lo + hi + 1) \div 2
         IN  IF Less(N, MulSmall(D, mid))
             THEN Digit(N, D, lo, mid - 1)
             ELSE Digit(N, D, mid, hi)

\* Long division limb by limb, most significant limb first.
RECURSIVE DivLimbs(_, _, _, _)
DivLimbs(N, D, i, r) ==
    IF i = 0 THEN [q |-> <<>>, r |-> r]
    ELSE LET cur == Norm(<<N[i]>> \o r)
         IN  IF Less(cur, D)
             THEN LET rest == DivLimbs(N, D, i - 1, cur)
                  IN  [q |-> Append(rest.q, 0), r |-> rest.r]
             ELSE LET d    == Digit(cur, D, 1, Base - 1)
                      rest == DivLimbs(N, D, i - 1, Sub(cur, MulSmall(D, d)))
                  IN  [q |-> Append(rest.q, d), r |-> rest.r]

DivLong(N, D) ==
    LET d == DivLimbs(N, D, Len(N), <<>>) IN [q |-> Norm(d.q), r |-> d.r]

\* The float with its mantissa's low zero limbs moved into the exponent.
RECURSIVE Canonical(_)
Canonical(f) ==
    IF f.m # <<>> /\ Head(f.m) = 0
    THEN Canonical([m |-> Tail(f.m), e |-> f.e + LimbBits])
    ELSE f

\* u + v for floats u, v >= 0.
FloatAdd(u, v) ==
    LET e == IF u.e < v.e THEN u.e ELSE v.e
    IN  RoundFloat(Add(ShiftLeft(u.m, u.e - e), ShiftLeft(v.m, v.e - e)), e, FALSE)

\* u / v for floats u >= 0, v > 0, correctly rounded.
FloatQuot(u, v) ==
    IF u.m = <<>> THEN FloatFromInt(0)
    ELSE LET d  == Canonical(v)
             k  == MantissaBits + 2 - BitLength(u.m) + BitLength(d.m)
             N  == ShiftLeft(u.m, k)
             qr == IF BitLength(d.m) + LimbBits <= 30
                   THEN LET s == DivSmall(N, ToSmall(d.m))
                        IN  [q |-> s.q, sticky |-> s.r # 0]
                   ELSE LET l == DivLong(N, d.m)
                        IN  [q |-> l.q, sticky |-> l.r # <<>>]
         IN  RoundFloat(qr.q, u.e - d.e - k, qr.sticky)

\* int(x) for a float x >= 0: truncation.
IntOfFloat(x) ==
    IF x.e >= 0 THEN ToSmall(ShiftLeft(x.m, x.e))
    ELSE ToSmall(ShiftRight(x.m, 0 - x.e))


(***************************************************************************)
(* Python values.  A dict is a function on the keys it holds, so that      *)
(* d.get(k, default) depends on whether the key is present.  An exam date  *)
(* string "YYYY-MM-DD" is the tuple <<Y, M, D>> of its zero-padded fields, *)
(* the empty string is <<>>.                                               *)
(***************************************************************************)
Get(d, k, default) == IF k \in DOMAIN d THEN d[k] ELSE default

Min2(a, b) == IF a <= b THEN a ELSE b
Max2(a, b) == IF a >= b THEN a ELSE b

RECURSIVE SumSeq(_)
SumSeq(q) == IF q = <<>> THEN 0 ELSE Head(q) + SumSeq(Tail(q))

RECURSIVE MinSeq(_, _)
MinSeq(q, default) ==
    IF q = <<>> THEN default
    ELSE IF Tail(q) = <<>> THEN Head(q)
    ELSE Min2(Head(q), MinSeq(Tail(q), default))

\* str < str on date-shaped strings and tuple < tuple: item by item, a
\* prefix first.
RECURSIVE TupleLess(_, _)
TupleLess(a, b) ==
    IF b = <<>> THEN FALSE
    ELSE IF a = <<>> THEN TRUE
    ELSE IF Head(a) # Head(b) THEN Head(a) < Head(b)
    ELSE TupleLess(Tail(a), Tail(b))

\* list.sort(key=...) / sorted(..., key=...): a stable sort; keys[i] is the
\* key of q[i].  The result is the order of the indexes of q.
RECURSIVE InsertStable(_, _, _)
InsertStable(i, order, keys) ==
    IF order = <<>> THEN <<i>>
    ELSE IF TupleLess(keys[i], keys[Head(order)]) THEN <<i>> \o order
    ELSE <<Head(order)>> \o InsertStable(i, Tail(order), keys)

RECURSIVE SortedOrder(_, _)
SortedOrder(n, keys) ==
    IF n = 0 THEN <<>> ELSE InsertStable(n, SortedOrder(n - 1, keys), keys)

StableSort(q, keys) ==
    LET order == SortedOrder(Len(q), keys) IN [j \in 1..Len(q) |-> q[order[j]]]

\* str.strip() on the topic names of the model: blank names strip to "".
strip(topic) == IF topic \in {"", " ", "  "} THEN "" ELSE topic

(***************************************************************************)
(* datetime.  The clock counts half days from 2025-01-01 00:00: an even    *)
(* clock value is a midnight exactly, an odd one a time of day after it.   *)
(* A datetime is its clock value; a timedelta's .days is the floor.        *)
(***************************************************************************)
LeapYear(y) == y % 4 = 0 /\ (y % 100 # 0 \/ y % 400 = 0)

DaysInMonth(y, m) ==
    IF m = 2 THEN (IF LeapYear(y) THEN 29 ELSE 28)
    ELSE IF m \in {4, 6, 9, 11} THEN 30 ELSE 31

DaysBeforeYear(y) ==
    365 * (y - 1) + ((y - 1) \div 4) - ((y - 1) \div 100) + ((y - 1) \div 400)

RECURSIVE DaysBeforeMonth(_, _)
DaysBeforeMonth(y, m) ==
    IF m = 1 THEN 0 ELSE DaysBeforeMonth(y, m - 1) + DaysInMonth(y, m - 1)

toordinal(d) == DaysBeforeYear(d[1]) + DaysBeforeMonth(d[1], d[2]) + d[3]

EpochDate == <<2025, 1, 1>>

\* datetime.strptime(s, '%Y-%m-%d') raises ValueError unless s is a date.
Parseable(s) ==
    /\ Len(s) = 3
    /\ s[1] \in 1..9999
    /\ s[2] \in 1..12
    /\ s[3] \in 1..DaysInMonth(s[1], s[2])

\* The datetime strptime returns (midnight of the date) as a clock value.
strptime(s) == 2 * (toordinal(s) - toordinal(EpochDate))

\* (a - b).days
TimedeltaDays(a, b) == (a - b) \div 2

\* The calendar day, counted from the epoch, of a datetime.
DateOf(t) == t \div 2

(***************************************************************************)
(* The state of the backend while it serves one request.                   *)
(***************************************************************************)
VARIABLES
    clock,              \* what datetime.now() returns
    pc,                 \* where the handler of the request stands
    request,            \* the request body
    subjects,           \* the subjects argument of the scheduling function
    priority_analysis,  \* generate_enhanced_timetable: priority_analysis
    sorted_subjects,    \* generate_enhanced_fallback_timetable: sorted_subjects
    timetable,          \* the timetable dict under construction
    topic_pool,         \* the topic units, hours_needed / estimated_hours mutable
    day,                \* the day loop's variable
    available_hours,
    session_count,
    day_schedule,       \* the day_schedule dict of the day being packed
    focus_topics,       \* focus_topics[:2], as indexes into topic_pool
    remaining_topics,   \* remaining_topics, as indexes into topic_pool
    cursor,             \* the position of the running for loop in its list
    attempt,            \* 1: the call of line 157, 2: the call of line 190
    response            \* what the endpoint returned or raised

vars ==
    <<clock, pc, request, subjects, priority_analysis, sorted_subjects,
      timetable, topic_pool, day, available_hours, session_count,
      day_schedule, focus_topics, remaining_topics, cursor, attempt,
      response>>

EmptyDict == [k \in {} |-> 0]
None == "None"

(***************************************************************************)
(* Priority Classifier and Hour Allocator of the enhanced path             *)
(* (generate_enhanced_fallback_timetable).                                 *)
(***************************************************************************)
\* priority = 1 if days_until <= 7 else 2 if days_until <= 14 else 3
PriorityOfDays(days_until) ==
    IF days_until <= 7 THEN 1 ELSE IF days_until <= 14 THEN 2 ELSE 3

\* Lines 212-230: the subject with days_until_exam and priority added.
ClassifySubject(subject, today) ==
    LET exam_date_str == Get(subject, "examDate", <<>>)
        dated         == exam_date_str # <<>> /\ Parseable(exam_date_str)
        days_until    == IF dated
                         THEN TimedeltaDays(strptime(exam_date_str), today)
                         ELSE 30
        priority      == IF dated THEN PriorityOfDays(days_until) ELSE 3
    IN  [days_until_exam |-> days_until, priority |-> priority] @@ subject

\* The sort key of lines 233 and 287 with the tier's sign turned.
PriorityKeyDescending(x) == <<0 - x.priority, x.days_until_exam>>

\* Lines 233 and 287: the sort key (x['priority'], x['days_until_exam']).
PriorityKey(x) == <<x.priority, x.days_until_exam>>

\* Lines 210-233.
SortedSubjects(subjs, today) ==
    LET tagged == [i \in 1..Len(subjs) |-> ClassifySubject(subjs[i], today)]
    IN  StableSort(tagged, [i \in 1..Len(subjs) |-> PriorityKey(tagged[i])])

\* Lines 236-237.
TotalDays(sorted) ==
    LET positive == SelectSeq([i \in 1..Len(sorted) |-> sorted[i].days_until_exam],
                              LAMBDA d : d > 0)
        min_days == MinSeq(positive, 30)
    IN  Max2(7, Min2(min_days, 60))

estimatedHours(subject) == Get(subject, "estimatedHours", 20)

\* Line 260: the float literals 1.5, 1.2 and 1.0, each the float nearest to
\* the decimal.
PriorityMultiplier(priority) ==
    IF priority = 1 THEN FloatDiv(15, 10)
    ELSE IF priority = 2 THEN FloatDiv(12, 10)
    ELSE FloatFromInt(1)

\* Lines 259-265 without the min with the subject's estimated hours.
AllocatedHoursUnclamped(subject, total_estimated_hours, total_hours) ==
    IntOfFloat(FloatMul(FloatMul(FloatDiv(estimatedHours(subject), total_estimated_hours),
                                 FloatFromInt(total_hours)),
                        PriorityMultiplier(subject.priority)))

\* Lines 259-265.
AllocatedHours(subject, total_estimated_hours, total_hours) ==
    LET estimated == estimatedHours(subject)
    IN  Min2(IntOfFloat(FloatMul(FloatMul(FloatDiv(estimated, total_estimated_hours),
                                          FloatFromInt(total_hours)),
                                 PriorityMultiplier(subject.priority))),
             estimated)

\* Lines 256-267: timetable["subject_hours"], a later subject of the same
\* name overwriting an earlier one.
RECURSIVE EnhancedSubjectHours(_, _, _)
EnhancedSubjectHours(sorted, total_estimated_hours, total_hours) ==
    IF sorted = <<>> THEN EmptyDict
    ELSE LET subject == sorted[Len(sorted)]
         IN  (subject.name :> AllocatedHours(subject, total_estimated_hours, total_hours))
             @@ EnhancedSubjectHours(SubSeq(sorted, 1, Len(sorted) - 1),
                                     total_estimated_hours, total_hours)

TotalEstimatedHours(sorted) ==
    SumSeq([i \in 1..Len(sorted) |-> estimatedHours(sorted[i])])

(***************************************************************************)
(* Topic Pool Builder of the enhanced path, lines 270-287.                 *)
(***************************************************************************)
SubjectTopics(subject) == Get(subject, "topics", <<subject.name>>)

EnhancedUnits(subject, subject_hours) ==
    LET topics            == SubjectTopics(subject)
        hours_for_subject == subject_hours[subject.name]
        hours_per_topic   == Max2(1, hours_for_subject \div Len(topics))
        units == [i \in 1..Len(topics) |->
                    [subject         |-> subject.name,
                     topic           |-> strip(topics[i]),
                     hours_needed    |-> hours_per_topic,
                     priority        |-> subject.priority,
                     days_until_exam |-> subject.days_until_exam]]
    IN  SelectSeq(units, LAMBDA u : u.topic # "")

RECURSIVE EnhancedPool(_, _)
EnhancedPool(sorted, subject_hours) ==
    IF sorted = <<>> THEN <<>>
    ELSE EnhancedUnits(Head(sorted), subject_hours)
         \o EnhancedPool(Tail(sorted), subject_hours)

SortPool(pool) == StableSort(pool, [i \in 1..Len(pool) |-> PriorityKey(pool[i])])

\* What makes lines 256-284 raise: the division by total_estimated_hours
\* and the division by len(topics).
EnhancedRaises(subjs) ==
    \/ TotalEstimatedHours(subjs) = 0
    \/ \E i \in 1..Len(subjs) : Len(SubjectTopics(subjs[i])) = 0

(***************************************************************************)
(* Daily Session Packer of the enhanced path, lines 290-359.               *)
(***************************************************************************)
Min3(a, b, c) == Min2(a, Min2(b, c))

\* Lines 315 and 339 without the cap of two hours.
SessionHoursUncapped(hours_left, hours_needed) == Min2(hours_left, hours_needed)

\* Lines 315 and 339 without the topic's hours_needed.
SessionHoursOfTheDay(hours_left, hours_needed) == Min2(2, hours_left)

\* Lines 315 and 339 without available_hours.
SessionHoursOfTheTopic(hours_left, hours_needed) == Min2(2, hours_needed)

\* Lines 315 and 339: min(2, available_hours, topic['hours_needed']).
SessionHours(hours_left, hours_needed) == Min3(2, hours_left, hours_needed)

\* Line 336 without the cap on the day's sessions.
GeneralBreakNoCap(hours_left, count) == hours_left <= 0

\* Line 336: the general loop's break.
GeneralBreak(hours_left, count) == hours_left <= 0 \/ count >= 4

\* Lines 316 and 340.
EnhancedTimeSlot(slots, count) ==
    IF count < Len(slots) THEN slots[count + 1]
    ELSE ToString(9 + count * 2) \o ":00-" \o ToString(11 + count * 2) \o ":00"

\* Lines 294-295 without the rotation: the first High-tier subject each day.
FocusSubjectFirst(sorted, d) ==
    LET high_priority_subjects == SelectSeq(sorted, LAMBDA x : x.priority = 1)
    IN  IF high_priority_subjects # <<>>
        THEN high_priority_subjects[1].name
        ELSE None

\* Lines 294-295.
FocusSubject(sorted, d) ==
    LET high_priority_subjects == SelectSeq(sorted, LAMBDA x : x.priority = 1)
    IN  IF high_priority_subjects # <<>>
        THEN high_priority_subjects[(d % Len(high_priority_subjects)) + 1].name
        ELSE None

Indexes(pool, Test(_)) ==
    SelectSeq([i \in 1..Len(pool) |-> i], LAMBDA i : Test(pool[i]))

\* Lines 310-311: focus_topics[:2].
FocusTopics(pool, focus_subject) ==
    IF focus_subject = None THEN <<>>
    ELSE LET all == Indexes(pool, LAMBDA t : t.subject = focus_subject
                                             /\ t.hours_needed > 0)
         IN  SubSeq(all, 1, Min2(2, Len(all)))

\* Line 334 without the test of hours_needed.
RemainingTopicsAll(pool) == Indexes(pool, LAMBDA t : TRUE)

\* Line 334.
RemainingTopics(pool) == Indexes(pool, LAMBDA t : t.hours_needed > 0)

PriorityLevel(priority) ==
    IF priority = 1 THEN "high" ELSE IF priority = 2 THEN "medium" ELSE "low"

\* Lines 318-327 and 344-353; unit is the pool entry the loop variable
\* topic refers to.
EnhancedSession(d, count, unit, topic, session_hours, slots, level) ==
    [session_id     |-> <<"enhanced_s", d + 1, count + 1>>,
     subject        |-> topic.subject,
     topic          |-> topic.topic,
     duration_hours |-> session_hours,
     time_slot      |-> EnhancedTimeSlot(slots, count),
     priority       |-> level,
     completed      |-> FALSE,
     notes          |-> "",
     unit           |-> unit]

\* Lines 290-311: the head of the day loop's body.  The focus loop over an
\* empty list ends at once, and the general loop's list is taken.
BeginDay(d, pool, sorted) ==
    LET focus_subject == FocusSubject(sorted, d)
        focus         == FocusTopics(pool, focus_subject)
    IN  /\ day' = d
        /\ day_schedule' = [day           |-> d + 1,
                            date          |-> DateOf(clock) + d,
                            sessions      |-> <<>>,
                            focus_subject |-> focus_subject]
        /\ available_hours' = timetable'.hours_per_day
        /\ session_count' = 0
        /\ focus_topics' = focus
        /\ cursor' = 1
        /\ IF focus = <<>>
           THEN pc' = "general" /\ remaining_topics' = RemainingTopics(pool)
           ELSE pc' = "focus" /\ remaining_topics' = <<>>

\* Lines 205-311: classification, allocation, the pool, and the head of day 1.
\* An exception leaves for the endpoint's handler (line 185), and from the
\* handler's own call (line 190) for the HTTP 500 of line 203.
GenerateEnhancedFallbackTimetable ==
    /\ pc \in {"core", "except"}
    /\ attempt' = IF pc = "core" THEN 1 ELSE 2
    /\ IF EnhancedRaises(subjects)
       THEN /\ IF pc = "core"
               THEN /\ pc' = "except"
                    /\ subjects' = request.subjects
                    /\ response' = response
               ELSE /\ pc' = "done"
                    /\ response' = [status |-> 500]
                    /\ subjects' = subjects
            /\ UNCHANGED <<clock, request, priority_analysis, sorted_subjects,
                           timetable, topic_pool, day, available_hours,
                           session_count, day_schedule, focus_topics,
                           remaining_topics, cursor>>
       ELSE LET sorted        == SortedSubjects(subjects, clock)
                total_days    == TotalDays(sorted)
                total_hours   == total_days * request.study_hours_per_day
                subject_hours == EnhancedSubjectHours(sorted,
                                     TotalEstimatedHours(sorted), total_hours)
                pool          == SortPool(EnhancedPool(sorted, subject_hours))
            IN  /\ sorted_subjects' = sorted
                /\ timetable' = [total_days    |-> total_days,
                                 hours_per_day |-> request.study_hours_per_day,
                                 total_hours   |-> total_hours,
                                 subjects      |-> sorted,
                                 subject_hours |-> subject_hours,
                                 daily_schedule |-> <<>>,
                                 id            |-> "enhanced_tt",
                                 generation_method |-> "enhanced_fallback"]
                /\ topic_pool' = pool
                /\ BeginDay(0, pool, sorted)
                /\ UNCHANGED <<clock, request, subjects, priority_analysis,
                               response>>

\* Lines 312-331: one pass of the focus loop's body.
FocusSession ==
    /\ pc = "focus"
    /\ cursor <= Len(focus_topics)
    /\ available_hours > 0
    /\ LET unit          == focus_topics[cursor]
           topic         == topic_pool[unit]
           session_hours == SessionHours(available_hours, topic.hours_needed)
           pool          == [topic_pool EXCEPT ![unit].hours_needed = @ - session_hours]
       IN  /\ day_schedule' =
                 [day_schedule EXCEPT !.sessions =
                     Append(@, EnhancedSession(day, session_count, unit, topic,
                                session_hours, request.preferred_time_slots, "high"))]
           /\ topic_pool' = pool
           /\ available_hours' = available_hours - session_hours
           /\ session_count' = session_count + 1
           /\ IF cursor + 1 <= Len(focus_topics)
              THEN /\ cursor' = cursor + 1
                   /\ UNCHANGED <<pc, remaining_topics>>
              ELSE /\ cursor' = 1
                   /\ pc' = "general"
                   /\ remaining_topics' = RemainingTopics(pool)
    /\ UNCHANGED <<clock, request, subjects, priority_analysis, sorted_subjects,
                   timetable, day, focus_topics, attempt, response>>

\* Lines 312-313 and 334: the focus loop breaks with no hours left.
FocusBreak ==
    /\ pc = "focus"
    /\ cursor <= Len(focus_topics)
    /\ available_hours <= 0
    /\ pc' = "general"
    /\ cursor' = 1
    /\ remaining_topics' = RemainingTopics(topic_pool)
    /\ UNCHANGED <<clock, request, subjects, priority_analysis, sorted_subjects,
                   timetable, topic_pool, day, available_hours, session_count,
                   day_schedule, focus_topics, attempt, response>>

\* Lines 335-357: one pass of the general loop's body.
GeneralSession ==
    /\ pc = "general"
    /\ cursor <= Len(remaining_topics)
    /\ ~GeneralBreak(available_hours, session_count)
    /\ LET unit          == remaining_topics[cursor]
           topic         == topic_pool[unit]
           session_hours == SessionHours(available_hours, topic.hours_needed)
       IN  /\ day_schedule' =
                 [day_schedule EXCEPT !.sessions =
                     Append(@, EnhancedSession(day, session_count, unit, topic,
                                session_hours, request.preferred_time_slots,
                                PriorityLevel(topic.priority)))]
           /\ topic_pool' = [topic_pool EXCEPT ![unit].hours_needed = @ - session_hours]
           /\ available_hours' = available_hours - session_hours
           /\ session_count' = session_count + 1
           /\ cursor' = cursor + 1
    /\ UNCHANGED <<clock, pc, request, subjects, priority_analysis,
                   sorted_subjects, timetable, day, focus_topics,
                   remaining_topics, attempt, response>>

\* Lines 160-181 and 196-201: what the endpoint returns.
EnhancedResponse(tt) ==
    IF attempt = 1
    THEN [status    |-> 200,
          timetable |-> [tt EXCEPT !.generation_method = "llm_enhanced"],
          priority_analysis |-> priority_analysis]
    ELSE [status |-> 200, timetable |-> tt]

\* Lines 336-337 and 359-361: the general loop ends, the day is appended,
\* and the next day begins or the timetable is returned.
EnhancedEndDay ==
    /\ pc = "general"
    /\ ~(cursor <= Len(remaining_topics)
         /\ ~GeneralBreak(available_hours, session_count))
    /\ timetable' = [timetable EXCEPT !.daily_schedule = Append(@, day_schedule)]
    /\ IF day + 1 < timetable.total_days
       THEN /\ BeginDay(day + 1, topic_pool, sorted_subjects)
            /\ UNCHANGED response
       ELSE /\ pc' = "done"
            /\ response' = EnhancedResponse(timetable')
            /\ UNCHANGED <<day, available_hours, session_count, day_schedule,
                           focus_topics, remaining_topics, cursor>>
    /\ UNCHANGED <<clock, request, subjects, priority_analysis, sorted_subjects,
                   topic_pool, attempt>>

(***************************************************************************)
(* The enhanced endpoint, generate_enhanced_timetable, lines 76-203.       *)
(***************************************************************************)
\* Line 92: the key x.get('examDate', '9999-12-31').
ExamDateKey(x) == Get(x, "examDate", <<9999, 12, 31>>)

SortByExamDate(subjs) ==
    StableSort(subjs, [i \in 1..Len(subjs) |-> ExamDateKey(subjs[i])])

\* Line 143: strptime raises ValueError on a non-empty string that is no date.
AnalysisRaises(subjs) ==
    \E i \in 1..Len(subjs) :
        LET s == Get(subjs[i], "examDate", <<>>) IN s # <<>> /\ ~Parseable(s)

\* Lines 141-154.
PriorityAnalysis(subjs, today) ==
    LET dated == SelectSeq(subjs, LAMBDA x : Get(x, "examDate", <<>>) # <<>>)
    IN  [i \in 1..Len(dated) |->
            LET days_remaining == TimedeltaDays(strptime(dated[i].examDate), today)
            IN  [subject         |-> dated[i].name,
                 days_remaining  |-> days_remaining,
                 priority        |-> IF days_remaining <= 7 THEN "High"
                                     ELSE IF days_remaining <= 14 THEN "Medium"
                                     ELSE "Low",
                 allocated_hours |-> estimatedHours(dated[i])]]

\* The requests of the model.
MaxHoursPerDay == 10
MaxClock == 1

Dec31 == <<2024, 12, 31>>
Jan03 == <<2025, 1, 3>>
Jan08 == <<2025, 1, 8>>
Jan09 == <<2025, 1, 9>>
Jan16 == <<2025, 1, 16>>
Feb15 == <<2025, 2, 15>>
NotADate == <<2025, 13, 1>>

Optional(key, values) == {EmptyDict} \cup {(key :> v) : v \in values}

MathSubjects ==
    { [name |-> "Math", topics |-> t] @@ d @@ e :
        t \in {<<"Algebra", "Calculus">>, <<"Algebra">>},
        d \in Optional("examDate", {Jan08, Jan09, Feb15}),
        e \in Optional("estimatedHours", {3}) }

PhysicsSubjects ==
    { [name |-> "Physics", topics |-> t] @@ d @@ e :
        t \in {<<"Mechanics">>, <<"Mechanics", " ", "Optics">>},
        d \in Optional("examDate", {Jan09, Jan16, Feb15}),
        e \in Optional("estimatedHours", {30}) }

\* Requests beside the regular ones: an estimate of 10 hours next to the
\* default of 20, a subject without topics, estimates that add up to 0,
\* exam dates that do not parse, an exam fewer than 7 days away and an exam
\* date already past.
SpecialSubjectLists ==
    LET Math    == [name |-> "Math", topics |-> <<"Algebra">>]
        Physics == [name |-> "Physics", topics |-> <<"Mechanics">>]
    IN  { <<Math @@ [examDate |-> Jan09, estimatedHours |-> 10],
            Physics @@ [examDate |-> Jan09]>>,
          <<[name |-> "Math", topics |-> <<>>]>>,
          <<Math @@ [estimatedHours |-> 0]>>,
          <<Math @@ [examDate |-> NotADate]>>,
          <<Physics @@ [examDate |-> Jan16], Math @@ [examDate |-> NotADate]>>,
          <<Math @@ [examDate |-> Jan03]>>,
          <<Math @@ [examDate |-> Dec31]>> }

EnhancedSubjectLists ==
    {<<>>}
    \cup SpecialSubjectLists
    \cup {<<m>> : m \in MathSubjects}
    \cup {<<m, p>> : m \in MathSubjects, p \in PhysicsSubjects}
    \cup UNION {{<<p, m>> : p \in {x \in PhysicsSubjects :
                                         ExamDateKey(x) = ExamDateKey(m)}} :
                 m \in MathSubjects}

HoursPerDayChoices == {1, 4, MaxHoursPerDay}
TimeSlotChoices == {<<>>, <<"6:00-8:00">>}

EnhancedRequests ==
    [subjects : EnhancedSubjectLists,
     study_hours_per_day : HoursPerDayChoices,
     preferred_time_slots : TimeSlotChoices]

\* Lines 76-157, up to the call of generate_enhanced_fallback_timetable.
GenerateEnhancedTimetable ==
    /\ pc = "idle"
    /\ \E req \in EnhancedRequests :
         /\ request' = req
         /\ IF req.subjects = <<>>
            THEN /\ pc' = "done"
                 /\ response' = [status |-> 400]
                 /\ UNCHANGED <<subjects, priority_analysis>>
            ELSE IF AnalysisRaises(req.subjects)
            THEN /\ pc' = "except"
                 /\ subjects' = req.subjects
                 /\ UNCHANGED <<priority_analysis, response>>
            ELSE /\ pc' = "core"
                 /\ subjects' = SortByExamDate(req.subjects)
                 /\ priority_analysis' = PriorityAnalysis(subjects', clock)
                 /\ UNCHANGED response
    /\ UNCHANGED <<clock, sorted_subjects, timetable, topic_pool, day,
                   available_hours, session_count, day_schedule, focus_topics,
                   remaining_topics, cursor, attempt>>

(***************************************************************************)
(* TimetableGenerator (models/timetable_generator.py).                     *)
(***************************************************************************)
\* Lines 15-25: the request's Subject objects as dicts; a Subject whose
\* weightage is None is a record without the field, and None or {} is {}.
SubjectsData(subjs) ==
    [i \in 1..Len(subjs) |->
        [name      |-> subjs[i].name,
         topics    |-> subjs[i].topics,
         weightage |-> Get(subjs[i], "weightage", EmptyDict)]]

\* sum(subject['weightage'].values()): the values are floats (main.py line
\* 50 declares Dict[str, float]), added one by one from 0.
RECURSIVE SumValues(_, _)
SumValues(d, keys) ==
    IF keys = {} THEN FloatFromInt(0)
    ELSE LET k == CHOOSE key \in keys : TRUE
         IN  FloatAdd(SumValues(d, keys \ {k}), d[k])

\* Lines 79-82 and 85-88: subject.get('weightage') is falsy for {}.
Weight(subject) ==
    IF subject.weightage # EmptyDict
    THEN SumValues(subject.weightage, DOMAIN subject.weightage)
    ELSE FloatFromInt(1)

\* Lines 77-82: total_weight += ..., subject by subject from 0.
RECURSIVE TotalWeightUpTo(_, _)
TotalWeightUpTo(subjs, n) ==
    IF n = 0 THEN FloatFromInt(0)
    ELSE FloatAdd(TotalWeightUpTo(subjs, n - 1), Weight(subjs[n]))

TotalWeight(subjs) == TotalWeightUpTo(subjs, Len(subjs))

\* Line 69.
AnyWeightage(subjs) == \E i \in 1..Len(subjs) : subjs[i].weightage # EmptyDict

\* The equal split without lines 71-74: the remainder is dropped.
EqualShareTruncated(i, n, total_hours) == total_hours \div n

\* Lines 70-74.
EqualShare(i, n, total_hours) ==
    (total_hours \div n) + (IF i - 1 < total_hours % n THEN 1 ELSE 0)

\* Line 90.
WeightedShare(weight, total_weight, total_hours) ==
    IntOfFloat(FloatMul(FloatQuot(weight, total_weight), FloatFromInt(total_hours)))

\* Lines 64-92: subject_hours, a later subject of the same name overwriting
\* an earlier one.
RECURSIVE SubjectHoursUpTo(_, _, _)
SubjectHoursUpTo(subjs, n, total_hours) ==
    IF n = 0 THEN EmptyDict
    ELSE (subjs[n].name :>
            IF ~AnyWeightage(subjs)
            THEN EqualShare(n, Len(subjs), total_hours)
            ELSE WeightedShare(Weight(subjs[n]), TotalWeight(subjs), total_hours))
         @@ SubjectHoursUpTo(subjs, n - 1, total_hours)

_calculate_subject_hours(subjs, total_hours) ==
    SubjectHoursUpTo(subjs, Len(subjs), total_hours)

\* Lines 70 and 90: the divisions that raise ZeroDivisionError.
CalculateRaises(subjs) ==
    IF ~AnyWeightage(subjs) THEN Len(subjs) = 0 ELSE TotalWeight(subjs).m = <<>>

\* Lines 101-118 without the max(1, ...) of lines 104 and 116.
BasicUnitsUnfloored(subject, subject_hours) ==
    LET subject_total_hours == subject_hours[subject.name]
        topics              == subject.topics
        hours_per_topic     == subject_total_hours \div Len(topics)
    IN  [i \in 1..Len(topics) |->
            LET topic_hours == IF topics[i] \in DOMAIN subject.weightage
                               THEN IntOfFloat(FloatMul(FloatFromInt(hours_per_topic),
                                                        subject.weightage[topics[i]]))
                               ELSE hours_per_topic
            IN  [subject         |-> subject.name,
                 topic           |-> topics[i],
                 estimated_hours |-> topic_hours,
                 completed       |-> FALSE]]

\* Lines 101-118.
BasicUnits(subject, subject_hours) ==
    LET subject_total_hours == subject_hours[subject.name]
        topics              == subject.topics
        hours_per_topic     == Max2(1, subject_total_hours \div Len(topics))
    IN  [i \in 1..Len(topics) |->
            LET topic_hours == IF topics[i] \in DOMAIN subject.weightage
                               THEN IntOfFloat(FloatMul(FloatFromInt(hours_per_topic),
                                                        subject.weightage[topics[i]]))
                               ELSE hours_per_topic
            IN  [subject         |-> subject.name,
                 topic           |-> topics[i],
                 estimated_hours |-> Max2(1, topic_hours),
                 completed       |-> FALSE]]

RECURSIVE BasicPool(_, _)
BasicPool(subjs, subject_hours) ==
    IF subjs = <<>> THEN <<>>
    ELSE BasicUnits(Head(subjs), subject_hours) \o BasicPool(Tail(subjs), subject_hours)

\* Line 104: the division by len(topics).
PoolRaises(subjs) == \E i \in 1..Len(subjs) : Len(subjs[i].topics) = 0

\* Line 148.
BasicTimeSlot(slots, count, session_hours) ==
    IF count < Len(slots) THEN slots[count + 1]
    ELSE ToString(9 + count) \o ":00-" \o ToString(9 + count + session_hours) \o ":00"

\* Line 142: min(available_hours, 2, topic['estimated_hours']).
BasicSessionHours(hours_left, estimated_hours) == Min3(hours_left, 2, estimated_hours)

\* Lines 132-136 and 171-172: the while loop goes on.
BasicContinues(hours_left, pool, count) ==
    /\ hours_left > 0 /\ pool # <<>>
    /\ \E i \in 1..Len(pool) : ~pool[i].completed
    /\ count < 4

\* Line 134.
UncompletedTopics(pool) == Indexes(pool, LAMBDA t : ~t.completed)

\* Lines 121-130: the head of the day loop's body.
BasicBeginDay(d) ==
    /\ day' = d
    /\ day_schedule' = [day |-> d + 1, date |-> DateOf(clock) + d, sessions |-> <<>>]
    /\ available_hours' = timetable'.hours_per_day
    /\ session_count' = 0

\* Lines 132-172: one pass of the while loop's body.
BasicSession ==
    /\ pc = "basic"
    /\ BasicContinues(available_hours, topic_pool, session_count)
    /\ LET uncompleted_topics == UncompletedTopics(topic_pool)
           unit  == uncompleted_topics[(session_count % Len(uncompleted_topics)) + 1]
           topic == topic_pool[unit]
           session_hours == BasicSessionHours(available_hours, topic.estimated_hours)
           left  == topic.estimated_hours - session_hours
       IN  /\ day_schedule' =
                 [day_schedule EXCEPT !.sessions =
                     Append(@, [session_id     |-> <<"s", day + 1, session_count + 1>>,
                                subject        |-> topic.subject,
                                topic          |-> topic.topic,
                                duration_hours |-> session_hours,
                                time_slot      |-> BasicTimeSlot(request.preferred_time_slots,
                                                       session_count, session_hours),
                                completed      |-> FALSE,
                                notes          |-> "",
                                unit           |-> unit])]
           /\ topic_pool' = [topic_pool EXCEPT ![unit] =
                                [@ EXCEPT !.estimated_hours = left,
                                          !.completed = (left <= 0)]]
           /\ available_hours' = available_hours - session_hours
           /\ session_count' = session_count + 1
    /\ UNCHANGED <<clock, pc, request, subjects, priority_analysis,
                   sorted_subjects, timetable, day, focus_topics,
                   remaining_topics, cursor, attempt, response>>

\* main.py lines 736-741: the endpoint's answer.
BasicResponse(tt) == [status |-> 200, timetable |-> tt]

\* Lines 132-136, 171-176 and 44-58: the while loop ends, the day is
\* appended, and the next day begins or the timetable is returned.
BasicEndDay ==
    /\ pc = "basic"
    /\ ~BasicContinues(available_hours, topic_pool, session_count)
    /\ timetable' = [timetable EXCEPT !.daily_schedule = Append(@, day_schedule)]
    /\ IF day + 1 < timetable.total_days
       THEN /\ BasicBeginDay(day + 1)
            /\ UNCHANGED <<pc, response>>
       ELSE /\ pc' = "done"
            /\ response' = BasicResponse(timetable')
            /\ UNCHANGED <<day, available_hours, session_count, day_schedule>>
    /\ UNCHANGED <<clock, request, subjects, priority_analysis, sorted_subjects,
                   topic_pool, focus_topics, remaining_topics, cursor, attempt>>

(***************************************************************************)
(* generate_fallback_timetable, main.py lines 764-850.                     *)
(***************************************************************************)
\* Lines 796-799.
FallbackSubjectHours(subjs, total_hours) ==
    [n \in {subjs[i].name : i \in 1..Len(subjs)} |-> total_hours \div Len(subjs)]

\* Lines 806-814.
FallbackUnits(subject) ==
    SelectSeq([i \in 1..Len(subject.topics) |->
                  [subject      |-> subject.name,
                   topic        |-> strip(subject.topics[i]),
                   hours_needed |-> 2]],
              LAMBDA u : u.topic # "")

RECURSIVE FallbackPool(_)
FallbackPool(subjs) ==
    IF subjs = <<>> THEN <<>>
    ELSE FallbackUnits(Head(subjs)) \o FallbackPool(Tail(subjs))

\* Line 827.
SessionsPerDay(hours) == Min2(hours \div 2, 4)

\* Lines 828-829: a pass of the session loop adds a session.
FallbackAdds(hours, pool, session, current_topic_index) ==
    /\ session < SessionsPerDay(hours)
    /\ pool # <<>> /\ current_topic_index < Len(pool)

\* Lines 819-824.
FallbackBeginDay(d) ==
    /\ day' = d
    /\ day_schedule' = [day |-> d + 1, date |-> DateOf(clock) + d, sessions |-> <<>>]
    /\ session_count' = 0

\* Lines 828-846: one pass of the session loop that adds a session; cursor
\* is current_topic_index + 1 and session_count the loop variable session.
FallbackSession ==
    /\ pc = "fallback"
    /\ FallbackAdds(request.study_hours_per_day, topic_pool, session_count, cursor - 1)
    /\ LET unit       == ((cursor - 1) % Len(topic_pool)) + 1
           topic_info == topic_pool[unit]
           time_slot  == IF session_count < Len(request.preferred_time_slots)
                         THEN request.preferred_time_slots[session_count + 1]
                         ELSE ToString(9 + session_count * 2) \o ":00-"
                              \o ToString(11 + session_count * 2) \o ":00"
       IN  day_schedule' =
              [day_schedule EXCEPT !.sessions =
                  Append(@, [session_id     |-> <<"fb_s", day + 1, session_count + 1>>,
                             subject        |-> topic_info.subject,
                             topic          |-> topic_info.topic,
                             duration_hours |-> 2,
                             time_slot      |-> time_slot,
                             completed      |-> FALSE,
                             notes          |-> "",
                             unit           |-> unit])]
    /\ cursor' = cursor + 1
    /\ session_count' = session_count + 1
    /\ UNCHANGED <<clock, pc, request, subjects, priority_analysis,
                   sorted_subjects, timetable, topic_pool, day, available_hours,
                   focus_topics, remaining_topics, attempt, response>>

\* Lines 754-760: the endpoint's answer from its handler.
FallbackResponse(tt) == [status |-> 200, timetable |-> tt, note |-> "fallback"]

\* Lines 828-829 and 848-850: no pass of the session loop adds a session any
\* more, the day is appended, the next day begins or the timetable is returned.
FallbackEndDay ==
    /\ pc = "fallback"
    /\ ~FallbackAdds(request.study_hours_per_day, topic_pool, session_count, cursor - 1)
    /\ timetable' = [timetable EXCEPT !.daily_schedule = Append(@, day_schedule)]
    /\ IF day + 1 < Min2(timetable.total_days, 30)
       THEN /\ FallbackBeginDay(day + 1)
            /\ UNCHANGED <<pc, response>>
       ELSE /\ pc' = "done"
            /\ response' = IF attempt = 1 THEN BasicResponse(timetable')
                           ELSE FallbackResponse(timetable')
            /\ UNCHANGED <<day, session_count, day_schedule>>
    /\ UNCHANGED <<clock, request, subjects, priority_analysis, sorted_subjects,
                   topic_pool, available_hours, focus_topics, remaining_topics,
                   cursor, attempt>>

(***************************************************************************)
(* The basic endpoint, generate_timetable, main.py lines 702-762.          *)
(***************************************************************************)
BasicMath ==
    { [name |-> "Math", topics |-> t] @@ w :
        t \in {<<"Algebra", "Calculus">>, <<"Algebra">>},
        w \in Optional("weightage", {[Algebra |-> FloatFromInt(2)],
                                     [Algebra |-> FloatFromInt(0)]}) }

BasicPhysics ==
    { [name |-> "Physics", topics |-> <<"Mechanics", " ">>] @@ w :
        w \in Optional("weightage", {[Mechanics |-> FloatFromInt(1)]}) }

BasicSubjectLists ==
    {<<>>}
    \cup {<<m>> : m \in BasicMath}
    \cup {<<m, p>> : m \in BasicMath, p \in BasicPhysics}

\* Requests with the exam more than 30 days away.
DistantExamRequests ==
    [subjects : {<<[name |-> "Math", topics |-> <<"Algebra">>]>>},
     exam_date : {Feb15},
     study_hours_per_day : {4},
     preferred_time_slots : {<<>>}]

BasicRequests ==
    [subjects : BasicSubjectLists,
     exam_date : {Jan03, Jan08, Dec31, NotADate},
     study_hours_per_day : HoursPerDayChoices,
     preferred_time_slots : TimeSlotChoices]
    \cup DistantExamRequests

\* generate_timetable of TimetableGenerator raises (lines 36 and 39).
GeneratorRaises(subjs) == CalculateRaises(subjs) \/ PoolRaises(subjs)

\* Lines 32-41 of timetable_generator.py and the head of day 1.
StartGenerator(req, days_available) ==
    LET subjects_data == SubjectsData(req.subjects)
        total_hours   == days_available * req.study_hours_per_day
        subject_hours == _calculate_subject_hours(subjects_data, total_hours)
    IN  /\ attempt' = 1
        /\ subjects' = subjects_data
        /\ timetable' = [id            |-> "tt",
                         total_days    |-> days_available,
                         hours_per_day |-> req.study_hours_per_day,
                         total_hours   |-> total_hours,
                         subjects      |-> subjects_data,
                         subject_hours |-> subject_hours,
                         daily_schedule |-> <<>>]
        /\ topic_pool' = BasicPool(subjects_data, subject_hours)
        /\ cursor' = 1
        /\ pc' = "basic"
        /\ BasicBeginDay(0)
        /\ UNCHANGED response

\* main.py lines 768-824; answers at once when the day range is empty.
StartFallback(req, days_until_exam, att) ==
    LET total_hours == days_until_exam * req.study_hours_per_day
        tt == [id            |-> "fallback",
               total_days    |-> days_until_exam,
               hours_per_day |-> req.study_hours_per_day,
               total_hours   |-> total_hours,
               subjects      |-> req.subjects,
               subject_hours |-> FallbackSubjectHours(req.subjects, total_hours),
               daily_schedule |-> <<>>]
    IN  /\ attempt' = att
        /\ subjects' = req.subjects
        /\ timetable' = tt
        /\ topic_pool' = FallbackPool(req.subjects)
        /\ cursor' = 1
        /\ available_hours' = available_hours
        /\ IF 0 < Min2(days_until_exam, 30)
           THEN /\ pc' = "fallback"
                /\ FallbackBeginDay(0)
                /\ UNCHANGED response
           ELSE /\ pc' = "done"
                /\ response' = IF att = 1 THEN BasicResponse(tt) ELSE FallbackResponse(tt)
                /\ UNCHANGED <<day, session_count, day_schedule>>

\* Lines 707-762.  generator_available is whether module initialisation
\* (lines 17-33) left a timetable_generator.  The HTTPException of lines 715
\* and 720 and every exception of the generator are caught at line 746, whose
\* handler answers with generate_fallback_timetable.
GenerateTimetable ==
    /\ pc = "idle"
    /\ \E req \in BasicRequests, generator_available \in BOOLEAN :
         /\ request' = req
         /\ IF ~Parseable(req.exam_date)
            THEN /\ pc' = "done"
                 /\ response' = [status |-> 400]
                 /\ UNCHANGED <<subjects, timetable, topic_pool, day,
                                available_hours, session_count, day_schedule,
                                cursor, attempt>>
            ELSE LET exam_date       == strptime(req.exam_date)
                     days_until_exam == TimedeltaDays(exam_date, clock)
                     rejected        == exam_date <= clock \/ days_until_exam < 1
                 IN  IF rejected
                     THEN StartFallback(req, days_until_exam, 2)
                     ELSE IF ~generator_available
                     THEN StartFallback(req, days_until_exam, 1)
                     ELSE IF GeneratorRaises(SubjectsData(req.subjects))
                     THEN StartFallback(req, days_until_exam, 2)
                     ELSE StartGenerator(req, days_until_exam)
    /\ UNCHANGED <<clock, priority_analysis, sorted_subjects, focus_topics,
                   remaining_topics>>

(***************************************************************************)
(* Rescheduling: the endpoint reschedule_timetable, main.py lines 890-921, *)
(* and TimetableGenerator.reschedule_timetable, timetable_generator.py     *)
(* lines 178-229, which the endpoint does not call.                        *)
(***************************************************************************)
MaxRemainingDays == 7

CompletedTopicsChoices == {<<>>, <<"Algebra">>, <<"Algebra", "Mechanics">>}
RemainingDaysChoices == {1, MaxRemainingDays}

\* RescheduleRequest, main.py lines 67-71; the timetable_id is the id of
\* the timetable generated before, if there is one.
RescheduleRequests ==
    [timetable_id : {Get(timetable, "id", "none")},
     completed_topics : CompletedTopicsChoices,
     remaining_days : RemainingDaysChoices]

\* main.py lines 915-919 with the count taken of the remaining days.
RescheduleResponseCountsDays(req) ==
    [status          |-> 200,
     success         |-> TRUE,
     new_timetable   |-> [id               |-> "rescheduled",
                          remaining_days   |-> req.remaining_days,
                          completed_topics |-> req.completed_topics,
                          status           |-> "rescheduled"],
     completed_count |-> req.remaining_days]

\* main.py lines 898-919: the endpoint's answer.
RescheduleResponse(req) ==
    [status          |-> 200,
     success         |-> TRUE,
     new_timetable   |-> [id               |-> "rescheduled",
                          remaining_days   |-> req.remaining_days,
                          completed_topics |-> req.completed_topics,
                          status           |-> "rescheduled"],
     completed_count |-> Len(req.completed_topics)]

\* timetable_generator.py lines 178-229: the dictionary returned when the
\* request to the language model succeeds (lines 197-210) and the one of
\* the except handler when it fails (lines 215-229).
reschedule_timetable(completed_topics, remaining_days, llm_fails) ==
    IF ~llm_fails
    THEN [id                 |-> "rescheduled",
          remaining_days     |-> remaining_days,
          completed_topics   |-> completed_topics,
          ai_recommendations |-> "recommendations",
          status             |-> "rescheduled"]
    ELSE [id               |-> "rescheduled",
          remaining_days   |-> remaining_days,
          completed_topics |-> completed_topics,
          recommendations  |-> "fallback",
          status           |-> "rescheduled"]

\* The endpoint is called, before any generation or after one has been
\* answered with a timetable.
RescheduleTimetable ==
    /\ \/ pc = "idle"
       \/ pc = "done" /\ "timetable" \in DOMAIN response
    /\ \E req \in RescheduleRequests :
         /\ request' = req
         /\ response' = RescheduleResponse(req)
    /\ pc' = "rescheduled"
    /\ UNCHANGED <<clock, subjects, priority_analysis, sorted_subjects,
                   timetable, topic_pool, day, available_hours, session_count,
                   day_schedule, focus_topics, remaining_topics, cursor,
                   attempt>>

\* The generator's method is called, the request to the language model
\* succeeding or failing.
GeneratorReschedule ==
    /\ \/ pc = "idle"
       \/ pc = "done" /\ "timetable" \in DOMAIN response
    /\ \E req \in RescheduleRequests, llm_fails \in BOOLEAN :
         /\ request' = req
         /\ response' = reschedule_timetable(req.completed_topics,
                                             req.remaining_days, llm_fails)
    /\ pc' = "generator rescheduled"
    /\ UNCHANGED <<clock, subjects, priority_analysis, sorted_subjects,
                   timetable, topic_pool, day, available_hours, session_count,
                   day_schedule, focus_topics, remaining_topics, cursor,
                   attempt>>

\* Time passes between the endpoint's datetime.now() (line 141) and the
\* scheduling function's (line 209).
Tick ==
    /\ pc \in {"core", "except"}
    /\ clock < MaxClock
    /\ clock' = clock + 1
    /\ UNCHANGED <<pc, request, subjects, priority_analysis, sorted_subjects,
                   timetable, topic_pool, day, available_hours, session_count,
                   day_schedule, focus_topics, remaining_topics, cursor,
                   attempt, response>>

Init ==
    /\ clock \in 0..MaxClock
    /\ pc = "idle"
    /\ request = EmptyDict
    /\ subjects = <<>>
    /\ priority_analysis = <<>>
    /\ sorted_subjects = <<>>
    /\ timetable = EmptyDict
    /\ topic_pool = <<>>
    /\ day = 0
    /\ available_hours = 0
    /\ session_count = 0
    /\ day_schedule = EmptyDict
    /\ focus_topics = <<>>
    /\ remaining_topics = <<>>
    /\ cursor = 1
    /\ attempt = 0
    /\ response = EmptyDict

Next ==
    \/ GenerateEnhancedTimetable
    \/ Tick
    \/ GenerateEnhancedFallbackTimetable
    \/ FocusSession
    \/ FocusBreak
    \/ GeneralSession
    \/ EnhancedEndDay
    \/ GenerateTimetable
    \/ BasicSession
    \/ BasicEndDay
    \/ FallbackSession
    \/ FallbackEndDay
    \/ RescheduleTimetable
    \/ GeneratorReschedule

Spec == Init /\ [][Next]_vars

(***************************************************************************)
(* Concurrent runs of generate_enhanced_fallback_timetable, main.py lines  *)
(* 205-361, and of TimetableGenerator.generate_timetable,                  *)
(* timetable_generator.py lines 10-62.  Under SpecRuns every variable of a *)
(* run is a function of the run, subjects[r] is the list the caller of run *)
(* r holds, and topic_pool is a function of the pool instance; the runs    *)
(* take their steps (the passes of the loops) in any order.                *)
(***************************************************************************)
Runs == {1, 2}

\* Line 269 of main.py and line 100 of timetable_generator.py,
\* topic_pool = []: every call works on a list of its own.
PoolOfModule(run) == 1
PoolOf(run) == run

\* Lines 290-311 as a function of the locals: the head of the day loop's
\* body for day d.
LocalsBeginDay(L, d) ==
    LET focus_subject == FocusSubject(L.sorted_subjects, d)
        focus         == FocusTopics(L.topic_pool, focus_subject)
    IN  [L EXCEPT !.day = d,
                  !.day_schedule = [day           |-> d + 1,
                                    date          |-> DateOf(L.today) + d,
                                    sessions      |-> <<>>,
                                    focus_subject |-> focus_subject],
                  !.available_hours = L.timetable.hours_per_day,
                  !.session_count = 0,
                  !.focus_topics = focus,
                  !.cursor = 1,
                  !.pc = IF focus = <<>> THEN "general" ELSE "focus",
                  !.remaining_topics = IF focus = <<>>
                                       THEN RemainingTopics(L.topic_pool)
                                       ELSE <<>>]

\* Lines 205-311: the locals of a call after classification, allocation,
\* the building of the pool and the head of day 1.
LocalsStart(subjs, hours_per_day, time_slots, today) ==
    LET sorted        == SortedSubjects(subjs, today)
        total_days    == TotalDays(sorted)
        total_hours   == total_days * hours_per_day
        subject_hours == EnhancedSubjectHours(sorted, TotalEstimatedHours(sorted),
                                              total_hours)
        L == [pc               |-> "start",
              today            |-> today,
              time_slots       |-> time_slots,
              sorted_subjects  |-> sorted,
              timetable        |-> [total_days    |-> total_days,
                                    hours_per_day |-> hours_per_day,
                                    total_hours   |-> total_hours,
                                    subjects      |-> sorted,
                                    subject_hours |-> subject_hours,
                                    daily_schedule |-> <<>>,
                                    id            |-> "enhanced_tt",
                                    generation_method |-> "enhanced_fallback"],
              topic_pool       |-> SortPool(EnhancedPool(sorted, subject_hours)),
              day              |-> 0,
              available_hours  |-> 0,
              session_count    |-> 0,
              day_schedule     |-> EmptyDict,
              focus_topics     |-> <<>>,
              remaining_topics |-> <<>>,
              cursor           |-> 1]
    IN  LocalsBeginDay(L, 0)

\* Lines 312-357: one pass of the focus loop or of the general loop, as a
\* function of the locals.
LocalsSession(L, unit, level) ==
    LET topic         == L.topic_pool[unit]
        session_hours == SessionHours(L.available_hours, topic.hours_needed)
    IN  [L EXCEPT !.day_schedule.sessions =
                      Append(@, EnhancedSession(L.day, L.session_count, unit, topic,
                                                session_hours, L.time_slots, level)),
                  !.topic_pool[unit].hours_needed = @ - session_hours,
                  !.available_hours = @ - session_hours,
                  !.session_count = @ + 1,
                  !.cursor = @ + 1]

\* timetable_generator.py lines 121-130: the head of the day loop's body.
GeneratorBeginDay(L, d) ==
    [L EXCEPT !.day = d,
              !.day_schedule = [day |-> d + 1, date |-> DateOf(L.today) + d,
                                sessions |-> <<>>],
              !.available_hours = L.timetable.hours_per_day,
              !.session_count = 0]

\* timetable_generator.py lines 14-41 and 99-130: the locals of a call of
\* generate_timetable after the allocation, the building of the pool and
\* the head of day 1.
GeneratorStart(subjs, days_available, hours_per_day, time_slots, today) ==
    LET subjects_data == SubjectsData(subjs)
        total_hours   == days_available * hours_per_day
        subject_hours == _calculate_subject_hours(subjects_data, total_hours)
        L == [pc               |-> "basic",
              today            |-> today,
              time_slots       |-> time_slots,
              sorted_subjects  |-> <<>>,
              timetable        |-> [id            |-> "tt",
                                    total_days    |-> days_available,
                                    hours_per_day |-> hours_per_day,
                                    total_hours   |-> total_hours,
                                    subjects      |-> subjects_data,
                                    subject_hours |-> subject_hours,
                                    daily_schedule |-> <<>>],
              topic_pool       |-> BasicPool(subjects_data, subject_hours),
              day              |-> 0,
              available_hours  |-> 0,
              session_count    |-> 0,
              day_schedule     |-> EmptyDict,
              focus_topics     |-> <<>>,
              remaining_topics |-> <<>>,
              cursor           |-> 1]
    IN  GeneratorBeginDay(L, 0)

\* timetable_generator.py lines 132-176: one pass of the while loop, or its
\* end and the head of the next day, as a function of the locals.
GeneratorStep(L) ==
    IF BasicContinues(L.available_hours, L.topic_pool, L.session_count)
    THEN LET uncompleted_topics == UncompletedTopics(L.topic_pool)
             unit  == uncompleted_topics[(L.session_count % Len(uncompleted_topics)) + 1]
             topic == L.topic_pool[unit]
             session_hours == BasicSessionHours(L.available_hours, topic.estimated_hours)
             left  == topic.estimated_hours - session_hours
         IN  [L EXCEPT !.day_schedule.sessions =
                           Append(@, [session_id     |-> <<"s", L.day + 1, L.session_count + 1>>,
                                      subject        |-> topic.subject,
                                      topic          |-> topic.topic,
                                      duration_hours |-> session_hours,
                                      time_slot      |-> BasicTimeSlot(L.time_slots,
                                                             L.session_count, session_hours),
                                      completed      |-> FALSE,
                                      notes          |-> "",
                                      unit           |-> unit]),
                       !.topic_pool[unit] = [@ EXCEPT !.estimated_hours = left,
                                                      !.completed = (left <= 0)],
                       !.available_hours = @ - session_hours,
                       !.session_count = @ + 1]
    ELSE LET n == [L EXCEPT !.timetable.daily_schedule = Append(@, L.day_schedule)]
         IN  IF L.day + 1 < L.timetable.total_days
             THEN GeneratorBeginDay(n, L.day + 1)
             ELSE [n EXCEPT !.pc = "done"]

\* main.py lines 819-824: the head of the day loop's body of
\* generate_fallback_timetable.
FallbackLocalsBeginDay(L, d) ==
    [L EXCEPT !.day = d,
              !.day_schedule = [day |-> d + 1, date |-> DateOf(L.today) + d,
                                sessions |-> <<>>],
              !.session_count = 0]

\* main.py lines 768-824: the locals of a call of
\* generate_fallback_timetable at the head of day 1, or at its return when
\* the day range is empty.
FallbackStart(subjs, days_until_exam, hours_per_day, time_slots, today) ==
    LET total_hours == days_until_exam * hours_per_day
        L == [pc               |-> "fallback",
              today            |-> today,
              time_slots       |-> time_slots,
              sorted_subjects  |-> <<>>,
              timetable        |-> [id            |-> "fallback",
                                    total_days    |-> days_until_exam,
                                    hours_per_day |-> hours_per_day,
                                    total_hours   |-> total_hours,
                                    subjects      |-> subjs,
                                    subject_hours |-> FallbackSubjectHours(subjs, total_hours),
                                    daily_schedule |-> <<>>],
              topic_pool       |-> FallbackPool(subjs),
              day              |-> 0,
              available_hours  |-> 0,
              session_count    |-> 0,
              day_schedule     |-> EmptyDict,
              focus_topics     |-> <<>>,
              remaining_topics |-> <<>>,
              cursor           |-> 1]
    IN  IF 0 < Min2(days_until_exam, 30)
        THEN FallbackLocalsBeginDay(L, 0)
        ELSE [L EXCEPT !.pc = "done"]

\* main.py lines 826-850: one pass of the session loop that adds a session,
\* or the end of the day and the head of the next, as a function of the
\* locals; cursor is current_topic_index + 1.
FallbackStep(L) ==
    IF FallbackAdds(L.timetable.hours_per_day, L.topic_pool, L.session_count,
                    L.cursor - 1)
    THEN LET unit       == ((L.cursor - 1) % Len(L.topic_pool)) + 1
             topic_info == L.topic_pool[unit]
             time_slot  == IF L.session_count < Len(L.time_slots)
                           THEN L.time_slots[L.session_count + 1]
                           ELSE ToString(9 + L.session_count * 2) \o ":00-"
                                \o ToString(11 + L.session_count * 2) \o ":00"
         IN  [L EXCEPT !.day_schedule.sessions =
                           Append(@, [session_id     |-> <<"fb_s", L.day + 1, L.session_count + 1>>,
                                      subject        |-> topic_info.subject,
                                      topic          |-> topic_info.topic,
                                      duration_hours |-> 2,
                                      time_slot      |-> time_slot,
                                      completed      |-> FALSE,
                                      notes          |-> "",
                                      unit           |-> unit]),
                       !.cursor = @ + 1,
                       !.session_count = @ + 1]
    ELSE LET n == [L EXCEPT !.timetable.daily_schedule = Append(@, L.day_schedule)]
         IN  IF L.day + 1 < Min2(L.timetable.total_days, 30)
             THEN FallbackLocalsBeginDay(n, L.day + 1)
             ELSE [n EXCEPT !.pc = "done"]

\* Lines 309-361 and 826-850 of main.py and 132-176 of
\* timetable_generator.py: the next step of a call, as a function of its
\* locals.
LocalsStep(L) ==
    IF L.pc = "basic" THEN GeneratorStep(L)
    ELSE IF L.pc = "fallback" THEN FallbackStep(L)
    ELSE IF L.pc = "focus"
    THEN IF L.cursor <= Len(L.focus_topics) /\ L.available_hours > 0
         THEN LET n == LocalsSession(L, L.focus_topics[L.cursor], "high")
              IN  IF n.cursor <= Len(L.focus_topics) THEN n
                  ELSE [n EXCEPT !.pc = "general", !.cursor = 1,
                                 !.remaining_topics = RemainingTopics(n.topic_pool)]
         ELSE [L EXCEPT !.pc = "general", !.cursor = 1,
                        !.remaining_topics = RemainingTopics(L.topic_pool)]
    ELSE IF L.pc = "general"
    THEN IF /\ L.cursor <= Len(L.remaining_topics)
            /\ ~GeneralBreak(L.available_hours, L.session_count)
         THEN LET unit == L.remaining_topics[L.cursor]
              IN  LocalsSession(L, unit, PriorityLevel(L.topic_pool[unit].priority))
         ELSE LET n == [L EXCEPT !.timetable.daily_schedule = Append(@, L.day_schedule)]
              IN  IF L.day + 1 < L.timetable.total_days
                  THEN LocalsBeginDay(n, L.day + 1)
                  ELSE [n EXCEPT !.pc = "done"]
    ELSE L

\* A call of its own, from its first step to its return.
RECURSIVE RunAlone(_)
RunAlone(L) == IF L.pc = "done" THEN L ELSE RunAlone(LocalsStep(L))

\* The requests of the concurrent runs.
RunSubjectLists ==
    { <<[name |-> "Math", topics |-> <<"Algebra", "Calculus">>, examDate |-> Jan08]>>,
      <<[name |-> "Math", topics |-> <<"Algebra">>, examDate |-> Jan09,
         estimatedHours |-> 3],
        [name |-> "Physics", topics |-> <<"Mechanics">>]>> }

RunRequests ==
    [subjects : RunSubjectLists,
     study_hours_per_day : {1, 4},
     preferred_time_slots : {<<>>}]

\* The arguments of the concurrent calls of generate_timetable.
GeneratorRunSubjectLists ==
    { <<[name |-> "Math", topics |-> <<"Algebra", "Calculus">>]>>,
      <<[name |-> "Math", topics |-> <<"Algebra">>,
         weightage |-> [Algebra |-> FloatFromInt(2)]],
        [name |-> "Physics", topics |-> <<"Mechanics">>]>> }

GeneratorRunRequests ==
    [subjects : GeneratorRunSubjectLists,
     days_available : {3},
     study_hours_per_day : {1, 4},
     preferred_time_slots : {<<>>}]

\* The locals a call starts with.
StartOf(req, today) ==
    IF "days_available" \in DOMAIN req
    THEN GeneratorStart(req.subjects, req.days_available, req.study_hours_per_day,
                        req.preferred_time_slots, today)
    ELSE LocalsStart(req.subjects, req.study_hours_per_day,
                     req.preferred_time_slots, today)

\* The locals of run r.
Locals(r) ==
    [pc               |-> pc[r],
     today            |-> clock,
     time_slots       |-> request[r].preferred_time_slots,
     sorted_subjects  |-> sorted_subjects[r],
     timetable        |-> timetable[r],
     topic_pool       |-> topic_pool[PoolOf(r)],
     day              |-> day[r],
     available_hours  |-> available_hours[r],
     session_count    |-> session_count[r],
     day_schedule     |-> day_schedule[r],
     focus_topics     |-> focus_topics[r],
     remaining_topics |-> remaining_topics[r],
     cursor           |-> cursor[r]]

\* Run r goes on with the locals L.
Becomes(r, L) ==
    /\ pc' = [pc EXCEPT ![r] = L.pc]
    /\ sorted_subjects' = [sorted_subjects EXCEPT ![r] = L.sorted_subjects]
    /\ timetable' = [timetable EXCEPT ![r] = L.timetable]
    /\ topic_pool' = [topic_pool EXCEPT ![PoolOf(r)] = L.topic_pool]
    /\ day' = [day EXCEPT ![r] = L.day]
    /\ available_hours' = [available_hours EXCEPT ![r] = L.available_hours]
    /\ session_count' = [session_count EXCEPT ![r] = L.session_count]
    /\ day_schedule' = [day_schedule EXCEPT ![r] = L.day_schedule]
    /\ focus_topics' = [focus_topics EXCEPT ![r] = L.focus_topics]
    /\ remaining_topics' = [remaining_topics EXCEPT ![r] = L.remaining_topics]
    /\ cursor' = [cursor EXCEPT ![r] = L.cursor]

\* A caller starts run r, a call of generate_enhanced_fallback_timetable
\* (lines 205-311) or of generate_timetable (lines 14-41 and 99-130).
RunStart(r) ==
    /\ pc[r] = "idle"
    /\ \E req \in RunRequests \cup GeneratorRunRequests :
         /\ request' = [request EXCEPT ![r] = req]
         /\ subjects' = [subjects EXCEPT ![r] = req.subjects]
         /\ Becomes(r, StartOf(req, clock))
    /\ UNCHANGED <<clock, priority_analysis, attempt, response>>

\* Run r takes its next step: lines 309-361.
RunStep(r) ==
    /\ pc[r] \in {"focus", "general", "basic"}
    /\ Becomes(r, LocalsStep(Locals(r)))
    /\ UNCHANGED <<clock, request, subjects, priority_analysis, attempt, response>>

InitRuns ==
    /\ clock \in 0..MaxClock
    /\ pc = [r \in Runs |-> "idle"]
    /\ request = [r \in Runs |-> EmptyDict]
    /\ subjects = [r \in Runs |-> <<>>]
    /\ priority_analysis = <<>>
    /\ sorted_subjects = [r \in Runs |-> <<>>]
    /\ timetable = [r \in Runs |-> EmptyDict]
    /\ topic_pool = [r \in Runs |-> <<>>]
    /\ day = [r \in Runs |-> 0]
    /\ available_hours = [r \in Runs |-> 0]
    /\ session_count = [r \in Runs |-> 0]
    /\ day_schedule = [r \in Runs |-> EmptyDict]
    /\ focus_topics = [r \in Runs |-> <<>>]
    /\ remaining_topics = [r \in Runs |-> <<>>]
    /\ cursor = [r \in Runs |-> 1]
    /\ attempt = 0
    /\ response = EmptyDict

NextRuns == \E r \in Runs : RunStart(r) \/ RunStep(r)

SpecRuns == InitRuns /\ [][NextRuns]_vars

(***************************************************************************)
(* The two generation endpoints as functions of the request, today and the *)
(* state of the text-generation collaborator: it answers, it fails, or     *)
(* module initialisation (main.py lines 17-33) left llm_handler and        *)
(* timetable_generator None.  Under SpecAdvisory response is a function of *)
(* the collaborator's state, the answers to one request side by side.      *)
(***************************************************************************)
Collaborators == {"answers", "fails", "unavailable"}

\* llm_handler.py lines 359-366: when the request to the language model
\* fails, _get_fallback_study_plan divides by len(subjects).
StudyPlanRaises(subjs, collaborator) ==
    collaborator = "fails" /\ Len(subjs) = 0

\* main.py lines 100-137: the advisory text of the enhanced endpoint.
LlmInsights(collaborator) ==
    IF collaborator = "answers" THEN "insights"
    ELSE IF collaborator = "fails" THEN "LLM analysis unavailable"
    ELSE "Smart algorithmic optimization applied"

\* main.py lines 76-203: the answer of generate_enhanced_timetable.
EnhancedEndpoint(req, today, collaborator) ==
    IF req.subjects = <<>> THEN [status |-> 400]
    ELSE LET sorted == SortByExamDate(req.subjects)
         IN  IF ~AnalysisRaises(sorted) /\ ~EnhancedRaises(sorted)
             THEN [status       |-> 200,
                   timetable    |-> RunAlone(LocalsStart(sorted, req.study_hours_per_day,
                                        req.preferred_time_slots, today)).timetable,
                   llm_insights |-> LlmInsights(collaborator),
                   llm_powered  |-> collaborator # "unavailable"]
             ELSE IF EnhancedRaises(req.subjects) THEN [status |-> 500]
             ELSE [status      |-> 200,
                   timetable   |-> RunAlone(LocalsStart(req.subjects,
                                       req.study_hours_per_day,
                                       req.preferred_time_slots, today)).timetable,
                   note        |-> "fallback",
                   llm_powered |-> FALSE]

\* main.py lines 702-762: the answer of generate_timetable.
BasicEndpoint(req, today, collaborator) ==
    IF ~Parseable(req.exam_date) THEN [status |-> 400]
    ELSE LET exam_date       == strptime(req.exam_date)
             days_until_exam == TimedeltaDays(exam_date, today)
             rejected        == exam_date <= today \/ days_until_exam < 1
             fallback        == RunAlone(FallbackStart(req.subjects, days_until_exam,
                                    req.study_hours_per_day,
                                    req.preferred_time_slots, today)).timetable
         IN  IF rejected THEN [status |-> 200, timetable |-> fallback, note |-> "fallback"]
             ELSE IF collaborator = "unavailable"
             THEN [status |-> 200, timetable |-> fallback]
             ELSE IF \/ StudyPlanRaises(SubjectsData(req.subjects), collaborator)
                     \/ GeneratorRaises(SubjectsData(req.subjects))
             THEN [status |-> 200, timetable |-> fallback, note |-> "fallback"]
             ELSE [status    |-> 200,
                   timetable |-> RunAlone(GeneratorStart(req.subjects, days_until_exam,
                                     req.study_hours_per_day,
                                     req.preferred_time_slots, today)).timetable]

\* A request is answered in each state of the collaborator.
AnswerEnhanced ==
    /\ pc = "idle"
    /\ \E req \in EnhancedRequests :
         /\ request' = req
         /\ response' = [c \in Collaborators |-> EnhancedEndpoint(req, clock, c)]
    /\ pc' = "enhanced answered"
    /\ UNCHANGED <<clock, subjects, priority_analysis, sorted_subjects, timetable,
                   topic_pool, day, available_hours, session_count, day_schedule,
                   focus_topics, remaining_topics, cursor, attempt>>

AnswerBasic ==
    /\ pc = "idle"
    /\ \E req \in BasicRequests :
         /\ request' = req
         /\ response' = [c \in Collaborators |-> BasicEndpoint(req, clock, c)]
    /\ pc' = "basic answered"
    /\ UNCHANGED <<clock, subjects, priority_analysis, sorted_subjects, timetable,
                   topic_pool, day, available_hours, session_count, day_schedule,
                   focus_topics, remaining_topics, cursor, attempt>>

NextAdvisory == AnswerEnhanced \/ AnswerBasic

SpecAdvisory == Init /\ [][NextAdvisory]_vars

(***************************************************************************)
(* _calculate_subject_hours on its own: the subjects and the total hours   *)
(* are drawn from bounded sets and the function is applied to them.        *)
(***************************************************************************)
MaxTotalHours == 55
MaxAllocSubjects == 3

AllocNames == <<"Math", "Physics", "Chemistry", "Biology", "History">>
AllocTopics == <<"Algebra", "Mechanics", "Acids", "Cells", "Rome">>

\* The weight is given in tenths, 0 standing for a subject that supplies no
\* weightage: 12 is the float of the literal 1.2.
AllocSubject(i, tenths) ==
    [name      |-> AllocNames[i],
     topics    |-> <<AllocTopics[i]>>,
     weightage |-> IF tenths = 0 THEN EmptyDict
                   ELSE IF tenths % 10 = 0
                   THEN (AllocTopics[i] :> FloatFromInt(tenths \div 10))
                   ELSE (AllocTopics[i] :> FloatDiv(tenths, 10))]

\* No weightage and the weights 1, 2, 3 and 8.
AllocWeights == {0, 10, 20, 30, 80}

\* No weightage and the weights 0.3, 0.7 and 1.2.
AllocFractions == {0, 3, 7, 12}

AllocSubjectLists ==
    UNION { { [i \in 1..n |-> AllocSubject(i, w[i])] : w \in [1..n -> AllocWeights] } :
            n \in 1..MaxAllocSubjects }
    \cup { [i \in 1..2 |-> AllocSubject(i, w[i])] : w \in [1..2 -> AllocFractions] }

InitAlloc ==
    /\ clock = 0
    /\ pc = "allocate"
    /\ request = EmptyDict
    /\ subjects \in AllocSubjectLists
    /\ priority_analysis = <<>>
    /\ sorted_subjects = <<>>
    /\ timetable \in {[total_hours |-> h] : h \in 0..MaxTotalHours}
    /\ topic_pool = <<>>
    /\ day = 0
    /\ available_hours = 0
    /\ session_count = 0
    /\ day_schedule = EmptyDict
    /\ focus_topics = <<>>
    /\ remaining_topics = <<>>
    /\ cursor = 1
    /\ attempt = 0
    /\ response = EmptyDict

\* timetable_generator.py line 36.
CalculateSubjectHours ==
    /\ pc = "allocate"
    /\ ~CalculateRaises(subjects)
    /\ pc' = "allocated"
    /\ timetable' = [total_hours   |-> timetable.total_hours,
                     subject_hours |-> _calculate_subject_hours(subjects,
                                           timetable.total_hours)]
    /\ UNCHANGED <<clock, request, subjects, priority_analysis, sorted_subjects,
                   topic_pool, day, available_hours, session_count,
                   day_schedule, focus_topics, remaining_topics, cursor,
                   attempt, response>>

NextAlloc == CalculateSubjectHours

SpecAlloc == InitAlloc /\ [][NextAlloc]_vars

(***************************************************************************)
(* Properties of _calculate_subject_hours, checked under SpecAlloc.        *)
(***************************************************************************)
Allocated == pc = "allocated"

SubjectNames(subjs) == {subjs[i].name : i \in 1..Len(subjs)}

\* The float is a whole number.
Whole(f) == f.e >= 0 \/ ~LowBitsNonZero(f.m, 0 - f.e)

\* Every subject's weight is a whole number; WholeWeight is that number.
WholeWeights(subjs) == \A i \in 1..Len(subjs) : Whole(Weight(subjs[i]))

WholeWeight(subject) == IntOfFloat(Weight(subject))

\* C1: when no subject supplies weightage, subject i of n (names distinct)
\* gets floor(H/n) hours plus one more if it is among the first H mod n, and
\* the allocated hours add up to the total hours H exactly.
C1_EqualSplitConserves ==
    (Allocated /\ ~AnyWeightage(subjects)) =>
        LET n  == Len(subjects)
            H  == timetable.total_hours
            sh == timetable.subject_hours
        IN  /\ DOMAIN sh = SubjectNames(subjects)
            /\ \A i \in 1..n :
                  sh[subjects[i].name] = (H \div n) + (IF i <= H % n THEN 1 ELSE 0)
            /\ SumSeq([i \in 1..n |-> sh[subjects[i].name]]) = H

\* Three subjects without weightage have shared out hours that leave a
\* remainder of two.
C1_Witness ==
    /\ Allocated /\ ~AnyWeightage(subjects)
    /\ Len(subjects) = 3
    /\ timetable.total_hours % 3 = 2
    /\ timetable.total_hours > 3

\* C10: when some subject supplies weightage, every subject's hours are
\* floor((weight / total weight) * total hours), the weight being the sum of
\* its weightage values or 1; weights 2 and 1 with 30 hours give 20 and 10.
C10_WeightedFloor ==
    (Allocated /\ AnyWeightage(subjects) /\ WholeWeights(subjects)) =>
        LET W  == SumSeq([i \in 1..Len(subjects) |-> WholeWeight(subjects[i])])
            H  == timetable.total_hours
            sh == timetable.subject_hours
        IN  \A i \in 1..Len(subjects) :
                sh[subjects[i].name] = (WholeWeight(subjects[i]) * H) \div W

\* The hours allocated to the subjects, added up.
AllocatedSum ==
    SumSeq([i \in 1..Len(subjects) |-> timetable.subject_hours[subjects[i].name]])

\* C11: when some subject supplies weightage and the total weight is
\* positive, the hours allocated to the n subjects add up to at most the
\* total hours H and to at least H - (n - 1).
C11_WeightedLossBound ==
    (Allocated /\ AnyWeightage(subjects)) =>
        /\ AllocatedSum <= timetable.total_hours
        /\ timetable.total_hours - (Len(subjects) - 1) <= AllocatedSum

(***************************************************************************)
(* Properties of the three packers, checked under Spec.                    *)
(***************************************************************************)
\* A day is being packed.
Packing == pc \in {"focus", "general", "basic", "fallback"}

\* The days appended to the timetable so far, and the day being packed.
DaySchedules ==
    (IF "daily_schedule" \in DOMAIN timetable THEN timetable.daily_schedule ELSE <<>>)
    \o (IF Packing /\ "sessions" \in DOMAIN day_schedule THEN <<day_schedule>> ELSE <<>>)

Durations(sessions) == [k \in 1..Len(sessions) |-> sessions[k].duration_hours]

\* The hours a unit of the pool still needs, under either name of the field.
HoursNeeded(unit) ==
    IF "hours_needed" \in DOMAIN unit THEN unit.hours_needed ELSE unit.estimated_hours

\* C2: every session of every packer has a whole number of hours d as its
\* duration, with 0 < d <= 2.
C2_SessionDuration ==
    LET days == DaySchedules
    IN  \A d \in 1..Len(days) :
            \A k \in 1..Len(days[d].sessions) :
                /\ days[d].sessions[k].duration_hours \in Int
                /\ 0 < days[d].sessions[k].duration_hours
                /\ days[d].sessions[k].duration_hours <= 2

\* A day being packed holds a session of one hour and a session of two.
C2_Witness ==
    /\ Packing
    /\ \E k \in 1..Len(day_schedule.sessions) :
           day_schedule.sessions[k].duration_hours = 1
    /\ \E k \in 1..Len(day_schedule.sessions) :
           day_schedule.sessions[k].duration_hours = 2

\* C3: no day of any schedule, on any path, has more than 4 sessions, the
\* sessions of the focus pass and of the general pass counted together.
C3_SessionsPerDay ==
    LET days == DaySchedules
    IN  \A d \in 1..Len(days) : Len(days[d].sessions) <= 4

\* The general pass stands at a unit with hours of the day left, after two
\* sessions of the focus pass and two of its own.
C3_Witness ==
    /\ pc = "general"
    /\ Len(day_schedule.sessions) = 4
    /\ cursor = 3
    /\ cursor <= Len(remaining_topics)
    /\ available_hours > 0

\* C4: at every step of packing every unit of the pool needs a whole number
\* of hours that is not negative.
C4_HoursNeverNegative ==
    \A i \in 1..Len(topic_pool) :
        HoursNeeded(topic_pool[i]) \in Int /\ HoursNeeded(topic_pool[i]) >= 0

\* A session of one hour, shorter than the day allowed, has brought its unit
\* to zero hours.
C4_Witness ==
    /\ Packing
    /\ available_hours > 0
    /\ \E k \in 1..Len(day_schedule.sessions) :
           /\ day_schedule.sessions[k].duration_hours = 1
           /\ HoursNeeded(topic_pool[day_schedule.sessions[k].unit]) = 0

\* C5: the durations of a day's sessions add up to at most the hours per
\* day, and the counter of available hours is never below zero.
C5_DailyCapacity ==
    /\ available_hours >= 0
    /\ LET days == DaySchedules
       IN  \A d \in 1..Len(days) :
               SumSeq(Durations(days[d].sessions)) <= timetable.hours_per_day

\* The day is full after a session that the hours left of the day cut short
\* of what its unit needed.
C5_Witness ==
    /\ Packing
    /\ available_hours = 0
    /\ day_schedule.sessions # <<>>
    /\ LET last == day_schedule.sessions[Len(day_schedule.sessions)]
       IN  /\ last.duration_hours = 1
           /\ HoursNeeded(topic_pool[last.unit]) > 0
    /\ SumSeq(Durations(day_schedule.sessions)) = timetable.hours_per_day

(***************************************************************************)
(* Properties of the enhanced path, checked under Spec.                    *)
(***************************************************************************)
\* The core function has built its timetable.
EnhancedBuilt ==
    /\ pc \in {"focus", "general", "done"}
    /\ "id" \in DOMAIN timetable
    /\ timetable.id = "enhanced_tt"

\* The subject has an exam date that parses.
Dated(subject) ==
    "examDate" \in DOMAIN subject /\ Parseable(subject.examDate)

\* The subject has no exam date.
Undated(subject) == "examDate" \notin DOMAIN subject

\* The subject, as classified, that a unit of the pool belongs to.
SubjectOf(unit) ==
    CHOOSE x \in {sorted_subjects[i] : i \in 1..Len(sorted_subjects)} :
        x.name = unit.subject

\* C6: in the general pass of a day the tiers of the sessions never fall
\* from one session to the next, and when a Low-tier unit gets a session of
\* the general pass, every High-tier unit that needed hours when the general
\* pass began has had a session earlier that day.
C6_PriorityOrder ==
    pc = "general" =>
        LET sessions == day_schedule.sessions
            first    == Len(sessions) - (cursor - 1) + 1
            Tier(k)  == topic_pool[sessions[k].unit].priority
        IN  /\ \A k \in first..Len(sessions) : \A l \in first..Len(sessions) :
                  k < l => Tier(k) <= Tier(l)
            /\ \A k \in first..Len(sessions) :
                  Tier(k) = 3 =>
                      \A j \in 1..Len(remaining_topics) :
                          topic_pool[remaining_topics[j]].priority = 1 =>
                              \E e \in 1..(k - 1) :
                                  sessions[e].unit = remaining_topics[j]

\* A Low-tier unit has a session of the general pass on a day whose general
\* pass began with a High-tier unit in need of hours.
C6_Witness ==
    /\ pc = "general"
    /\ \E k \in (Len(day_schedule.sessions) - (cursor - 1) + 1)..Len(day_schedule.sessions) :
           topic_pool[day_schedule.sessions[k].unit].priority = 3
    /\ \E j \in 1..Len(remaining_topics) :
           topic_pool[remaining_topics[j]].priority = 1

\* C7: a subject with no exam date gets 30 days and tier Low, and in the
\* sorted pool each of its units stands after every unit of every subject
\* whose exam date parses.
C7_UndatedLast ==
    EnhancedBuilt =>
        /\ \A i \in 1..Len(sorted_subjects) :
              Undated(sorted_subjects[i]) =>
                  /\ sorted_subjects[i].days_until_exam = 30
                  /\ sorted_subjects[i].priority = 3
        /\ \A i \in 1..Len(topic_pool) : \A j \in 1..Len(topic_pool) :
              (Undated(SubjectOf(topic_pool[i])) /\ Dated(SubjectOf(topic_pool[j])))
                  => j < i

TierName(priority) ==
    IF priority = 1 THEN "High" ELSE IF priority = 2 THEN "Medium" ELSE "Low"

\* C9: for a subject whose exam date parses, days-remaining is the whole
\* number of days from today to the exam, the tier is High up to 7 days,
\* Medium from 8 to 14 and Low beyond, and the tier that priority_analysis
\* reports is the tier the allocator and the packer use.
C9_TierAgreement ==
    (EnhancedBuilt /\ attempt = 1) =>
        \A i \in 1..Len(sorted_subjects) :
            LET subject == sorted_subjects[i]
                days    == subject.days_until_exam
            IN  Dated(subject) =>
                  /\ days = TimedeltaDays(strptime(subject.examDate), clock)
                  /\ (subject.priority = 1) <=> (days <= 7)
                  /\ (subject.priority = 2) <=> (8 <= days /\ days <= 14)
                  /\ (subject.priority = 3) <=> (days > 14)
                  /\ \A a \in 1..Len(priority_analysis) :
                        priority_analysis[a].subject = subject.name =>
                            priority_analysis[a].priority = TierName(subject.priority)

\* Scenario A: Math with topics Algebra and Calculus, the exam 7 days after
\* today's date, 4 hours a day, no weightage, no preferred time slots.
ScenarioARequest ==
    [subjects |-> <<[name     |-> "Math",
                     topics   |-> <<"Algebra", "Calculus">>,
                     examDate |-> Jan08]>>,
     study_hours_per_day  |-> 4,
     preferred_time_slots |-> <<>>]

ScenarioA == EnhancedBuilt /\ request = ScenarioARequest /\ DateOf(clock) = 0

\* What a run of Scenario A yields, given the hours of Math and of each of
\* its two units: priority High, 28 total hours, and a first day of exactly
\* two sessions of 2 hours in the slots 9:00-11:00 and 11:00-13:00.
ScenarioAYields(math_hours, unit_hours) ==
    /\ Len(sorted_subjects) = 1
    /\ sorted_subjects[1].priority = 1
    /\ attempt = 1 => /\ Len(priority_analysis) = 1
                      /\ priority_analysis[1].priority = "High"
    /\ timetable.total_hours = 28
    /\ timetable.subject_hours["Math"] = math_hours
    /\ Len(topic_pool) = 2
    /\ (pc = "focus" /\ day = 0 /\ session_count = 0) =>
           \A i \in 1..2 : topic_pool[i].hours_needed = unit_hours
    /\ Len(timetable.daily_schedule) >= 1 =>
           LET sessions == timetable.daily_schedule[1].sessions
           IN  /\ Len(sessions) = 2
               /\ \A k \in 1..2 : sessions[k].duration_hours = 2
               /\ sessions[1].time_slot = "9:00-11:00"
               /\ sessions[2].time_slot = "11:00-13:00"

\* C8: a run of Scenario A yields priority High, 28 total hours, 28 hours
\* for Math, two units of 14 hours each, and a first day of exactly two
\* sessions of 2 hours in the slots 9:00-11:00 and 11:00-13:00.
C8_ScenarioA == ScenarioA => ScenarioAYields(28, 14)

\* C8 as the code has it: the same, with 20 hours for Math (its estimated
\* hours, by default 20, cap the share) and two units of 10 hours each.
C8_ScenarioA_Capped == ScenarioA => ScenarioAYields(20, 10)

\* The run of Scenario A has answered with its timetable.
C8_Witness ==
    /\ ScenarioA
    /\ pc = "done"
    /\ response.status = 200
    /\ Len(response.timetable.daily_schedule) = 7

(***************************************************************************)
(* The priority-weighted allocation of the enhanced path, checked under    *)
(* Spec.                                                                   *)
(***************************************************************************)
\* The multiplier of a tier as a fraction: 3/2 for High, 6/5 for Medium and
\* 1/1 for Low.
MultiplierNum(priority) == IF priority = 1 THEN 3 ELSE IF priority = 2 THEN 6 ELSE 1
MultiplierDen(priority) == IF priority = 1 THEN 2 ELSE IF priority = 2 THEN 5 ELSE 1

\* floor((estimated / total_estimated) * total_hours * m), in exact arithmetic.
ExactShare(subject, total_estimated, total_hours) ==
    (estimatedHours(subject) * total_hours * MultiplierNum(subject.priority))
        \div (total_estimated * MultiplierDen(subject.priority))

\* C12: on the enhanced path every subject is allocated the smaller of its
\* estimated hours (20 when it supplies none) and the floor of
\* (estimated / total estimated) * total hours * m, with m = 1.5 for High,
\* 1.2 for Medium and 1.0 for Low; so no subject is allocated more than its
\* estimated hours.
C12_PriorityWeighted ==
    EnhancedBuilt =>
        \A i \in 1..Len(sorted_subjects) :
            LET subject == sorted_subjects[i]
                hours   == timetable.subject_hours[subject.name]
            IN  /\ hours = Min2(estimatedHours(subject),
                                ExactShare(subject,
                                           TotalEstimatedHours(sorted_subjects),
                                           timetable.total_hours))
                /\ hours <= estimatedHours(subject)

(***************************************************************************)
(* The topic pools as they are built, checked under Spec.                  *)
(***************************************************************************)
\* The pool has just been built: no session has been packed yet.
PoolFresh ==
    /\ pc \in {"focus", "general", "basic"}
    /\ day = 0
    /\ timetable.daily_schedule = <<>>
    /\ day_schedule.sessions = <<>>

\* The subject of the generator's subjects_data that a unit belongs to.
BasicSubjectOf(unit) ==
    CHOOSE x \in {subjects[i] : i \in 1..Len(subjects)} : x.name = unit.subject

\* C13: every unit put into the pool starts with at least 1 hour needed, on
\* the enhanced path and on the generator's path, and a unit whose topic has
\* no weightage starts with max(1, floor(subject's allocated hours / number
\* of the subject's topics)).
C13_TopicNeverZero ==
    /\ (EnhancedBuilt /\ PoolFresh) =>
          \A k \in 1..Len(topic_pool) :
              LET unit    == topic_pool[k]
                  subject == SubjectOf(unit)
              IN  /\ unit.hours_needed >= 1
                  /\ unit.hours_needed =
                        Max2(1, timetable.subject_hours[subject.name]
                                    \div Len(SubjectTopics(subject)))
    /\ (PoolFresh /\ pc = "basic") =>
          \A k \in 1..Len(topic_pool) :
              LET unit    == topic_pool[k]
                  subject == BasicSubjectOf(unit)
              IN  /\ unit.estimated_hours >= 1
                  /\ unit.topic \notin DOMAIN subject.weightage =>
                        unit.estimated_hours =
                            Max2(1, timetable.subject_hours[subject.name]
                                        \div Len(subject.topics))

\* A pool of the generator holds a topic of weightage 0, and a pool of the
\* enhanced path a subject allocated fewer hours than it has topics.
C13_Witness ==
    /\ PoolFresh
    /\ \/ /\ pc = "basic"
          /\ \E k \in 1..Len(topic_pool) :
                LET unit == topic_pool[k] subject == BasicSubjectOf(unit)
                IN  /\ unit.topic \in DOMAIN subject.weightage
                    /\ subject.weightage[unit.topic].m = <<>>
                    /\ unit.estimated_hours = 1
       \/ /\ EnhancedBuilt
          /\ \E k \in 1..Len(topic_pool) :
                LET unit == topic_pool[k] subject == SubjectOf(unit)
                IN  /\ timetable.subject_hours[subject.name]
                           < Len(SubjectTopics(subject))
                    /\ unit.hours_needed = 1

(***************************************************************************)
(* The answers of the two endpoints to requests they cannot serve,         *)
(* checked under Spec.                                                     *)
(***************************************************************************)
\* The endpoint has answered with a timetable.
AnsweredWithTimetable ==
    /\ pc = "done"
    /\ response.status = 200
    /\ "timetable" \in DOMAIN response

\* The endpoint has answered with an error.
Rejected ==
    /\ pc = "done"
    /\ response.status \in {400, 500}

\* C14: a request with an empty subject list is rejected by the enhanced
\* endpoint and by the basic endpoint; neither answers it with a timetable.
C14_EmptySubjectSetRejected ==
    (pc = "done" /\ request.subjects = <<>>) =>
        /\ Rejected
        /\ ~AnsweredWithTimetable

\* Every exam date the request supplies parses.
DatesParse(req) ==
    /\ "exam_date" \in DOMAIN req => Parseable(req.exam_date)
    /\ \A i \in 1..Len(req.subjects) :
          "examDate" \in DOMAIN req.subjects[i] =>
              Parseable(req.subjects[i].examDate)

\* C15: a request with at least one subject, whose dates parse, is answered
\* with a timetable and never with an error, also when a subject has no
\* topics or the estimated hours add up to 0.
C15_AlwaysReturnsSchedule ==
    (pc = "done" /\ request.subjects # <<>> /\ DatesParse(request)) =>
        /\ AnsweredWithTimetable
        /\ ~Rejected

\* C16: a request with at least one subject and an exam date that does not
\* parse is answered with a timetable, in which a subject whose date does
\* not parse has 30 days remaining and the tier Low; on the enhanced
\* endpoint and on the basic endpoint.
C16_InvalidDateDegrades ==
    (pc = "done" /\ request.subjects # <<>> /\ ~DatesParse(request)) =>
        /\ AnsweredWithTimetable
        /\ \A i \in 1..Len(sorted_subjects) :
              LET subject == sorted_subjects[i]
              IN  ("examDate" \in DOMAIN subject /\ ~Parseable(subject.examDate)) =>
                      /\ subject.days_until_exam = 30
                      /\ subject.priority = 3

Rescheduled == pc \in {"rescheduled", "generator rescheduled"}

\* The timetable a reschedule operation returned.
RescheduledTimetable ==
    IF pc = "rescheduled" THEN response.new_timetable ELSE response

\* C18: the timetable that rescheduling returns has one day schedule for
\* each of the remaining days and no session for a completed topic.
C18_FilterAndReinvoke ==
    Rescheduled =>
        LET schedule  == Get(RescheduledTimetable, "daily_schedule", <<>>)
            completed == {request.completed_topics[i] :
                             i \in 1..Len(request.completed_topics)}
        IN  /\ Len(schedule) = request.remaining_days
            /\ \A d \in 1..Len(schedule) :
                  \A k \in 1..Len(schedule[d].sessions) :
                      schedule[d].sessions[k].topic \notin completed

\* C19: rescheduling a generated timetable with no completed topic and the
\* number of days it was generated for returns the same hours for each
\* subject as the generation did.
C19_IdempotentReschedule ==
    (/\ Rescheduled
     /\ request.timetable_id # "none"
     /\ request.completed_topics = <<>>
     /\ request.remaining_days = timetable.total_days) =>
        Get(RescheduledTimetable, "subject_hours", EmptyDict)
            = timetable.subject_hours

(***************************************************************************)
(* Concurrent runs, checked under SpecRuns.                                *)
(***************************************************************************)
\* The locals are those of some step of the call that starts with L and
\* runs alone.
RECURSIVE OnRunAlone(_, _)
OnRunAlone(L, locals) ==
    IF L = locals THEN TRUE
    ELSE IF L.pc = "done" THEN FALSE
    ELSE OnRunAlone(LocalsStep(L), locals)

\* C20: however the steps of concurrent runs are interleaved, a run that
\* has returned has the subject_hours and the daily sessions it has when it
\* runs alone on the same request and the same today, a run that is under
\* way has the pool and the locals of one of its steps when it runs alone,
\* and the subjects and topic lists its caller supplied are as the caller
\* supplied them.
C20_RunIsolation ==
    \A r \in Runs :
        pc[r] # "idle" =>
            LET req   == request[r]
                alone == RunAlone(StartOf(req, clock))
            IN  /\ subjects[r] = req.subjects
                /\ OnRunAlone(StartOf(req, clock), Locals(r))
                /\ pc[r] = "done" =>
                      /\ timetable[r].subject_hours = alone.timetable.subject_hours
                      /\ timetable[r].daily_schedule = alone.timetable.daily_schedule
                      /\ topic_pool[PoolOf(r)] = alone.topic_pool

\* One run has returned while the other, started before the first
\* returned, is in the middle of packing a later day.
C20_Witness ==
    /\ pc[1] = "done"
    /\ pc[2] \in {"focus", "general", "basic"}
    /\ day[2] >= 1
    /\ day_schedule[2].sessions # <<>>
    /\ Len(timetable[1].daily_schedule) = timetable[1].total_days
    /\ \E d \in 1..Len(timetable[1].daily_schedule) :
          timetable[1].daily_schedule[d].sessions # <<>>

(***************************************************************************)
(* The text-generation collaborator, checked under SpecAdvisory.           *)
(***************************************************************************)
\* What an answer says of the scheduling: its status, the hours of the
\* subjects and the sessions of the days.
Scheduling(answer) ==
    IF "timetable" \in DOMAIN answer
    THEN [status         |-> answer.status,
          subject_hours  |-> answer.timetable.subject_hours,
          daily_schedule |-> answer.timetable.daily_schedule]
    ELSE [status |-> answer.status]

\* C21: for the same request and the same today, the subject_hours and the
\* daily sessions an endpoint returns are the same whether the collaborator
\* answers, fails or is unavailable, and no answer differs in status from
\* the one given when the collaborator answers.
C21_CollaboratorCannotAffectScheduling ==
    pc \in {"enhanced answered", "basic answered"} =>
        \A c \in Collaborators :
            Scheduling(response[c]) = Scheduling(response["answers"])

(***************************************************************************)
(* The packing of a day, checked under Spec.                               *)
(***************************************************************************)
\* The day loop's body is about to append the day: the general loop of the
\* enhanced path has ended (main.py lines 335-337), or the while loop of
\* the generator has (timetable_generator.py lines 132-136 and 171-172).
DayEnds ==
    \/ /\ pc = "general"
       /\ ~(cursor <= Len(remaining_topics)
            /\ ~GeneralBreak(available_hours, session_count))
    \/ /\ pc = "basic"
       /\ ~BasicContinues(available_hours, topic_pool, session_count)

\* C22: when the packing of a day ends, on the enhanced path and on the
\* generator's path, the day has no hours left, or it has 4 sessions or
\* more, or no unit of the pool needs hours.
C22_DayLoopTermination ==
    DayEnds =>
        \/ available_hours = 0
        \/ session_count >= 4
        \/ \A i \in 1..Len(topic_pool) : HoursNeeded(topic_pool[i]) <= 0

\* The label "{9+2i}:00-{11+2i}:00".
SynthesizedSlot(i) ==
    ToString(9 + 2 * i) \o ":00-" \o ToString(11 + 2 * i) \o ":00"

\* C23: on every path the session with index i of its day, counted from 0,
\* has the preferred slot number i when the request has more than i
\* preferred slots, and the label "{9+2i}:00-{11+2i}:00" otherwise.
C23_TimeSlotAssignment ==
    Packing \/ pc = "done" =>
        \A d \in 1..Len(DaySchedules) :
            \A k \in 1..Len(DaySchedules[d].sessions) :
                DaySchedules[d].sessions[k].time_slot =
                    IF k - 1 < Len(request.preferred_time_slots)
                    THEN request.preferred_time_slots[k]
                    ELSE SynthesizedSlot(k - 1)

\* C24: on every path no unit of the pool and no session has a topic name
\* that is empty after trimming.
C24_BlankTopicsDropped ==
    Packing \/ pc = "done" =>
        /\ \A i \in 1..Len(topic_pool) : strip(topic_pool[i].topic) # ""
        /\ \A d \in 1..Len(DaySchedules) :
              \A k \in 1..Len(DaySchedules[d].sessions) :
                  strip(DaySchedules[d].sessions[k].topic) # ""

(***************************************************************************)
(* The focus pass of the enhanced path, checked under Spec.                *)
(***************************************************************************)
\* The High-tier subjects in the order of the sorted subjects.
HighTier == SelectSeq(sorted_subjects, LAMBDA x : x.priority = 1)

\* The focus pass of the day has ended and the general pass has not begun.
FocusPassEnded == EnhancedBuilt /\ pc = "general" /\ cursor = 1

\* The hours today's sessions gave to a unit of the pool.
GivenToday(unit) ==
    SumSeq([k \in 1..Len(day_schedule.sessions) |->
               IF day_schedule.sessions[k].unit = unit
               THEN day_schedule.sessions[k].duration_hours ELSE 0])

\* C25: the focus subject of the day with index d, counted from 0, is the
\* High-tier subject number d mod count, or none when no subject is of the
\* High tier; when the focus pass of a day ends it has emitted at most 2
\* sessions, all of the focus subject, at least one if a topic of the focus
\* subject needed hours when the day began, each of min(2, hours left in
\* the day, hours the topic needed) hours; and in any count consecutive
\* days each High-tier subject is the focus subject exactly once.
C25_FocusPass ==
    EnhancedBuilt =>
        LET days == DaySchedules
            high == HighTier
        IN  /\ \A d \in 1..Len(days) :
                  days[d].focus_subject =
                      IF high = <<>> THEN None
                      ELSE high[((d - 1) % Len(high)) + 1].name
            /\ FocusPassEnded =>
                  LET sessions == day_schedule.sessions
                  IN  /\ Len(sessions) <= 2
                      /\ \A k \in 1..Len(sessions) :
                            /\ sessions[k].subject = day_schedule.focus_subject
                            /\ sessions[k].duration_hours =
                                  Min3(2,
                                       timetable.hours_per_day
                                           - SumSeq(SubSeq(Durations(sessions), 1, k - 1)),
                                       topic_pool[sessions[k].unit].hours_needed
                                           + sessions[k].duration_hours)
                      /\ (\E i \in 1..Len(topic_pool) :
                             /\ topic_pool[i].subject = day_schedule.focus_subject
                             /\ topic_pool[i].hours_needed + GivenToday(i) > 0)
                            => Len(sessions) >= 1
            /\ high # <<>> =>
                  \A d \in 1..(Len(days) - Len(high) + 1) :
                      \A i \in 1..Len(high) :
                          Cardinality({e \in d..(d + Len(high) - 1) :
                              days[e].focus_subject = high[i].name}) = 1

\* Two subjects are of the High tier, and the second is the focus subject
\* of the second day, whose focus pass gave it a session.
C25_Witness ==
    /\ FocusPassEnded
    /\ Len(HighTier) = 2
    /\ day = 1
    /\ day_schedule.focus_subject = HighTier[2].name
    /\ Len(day_schedule.sessions) >= 1

(***************************************************************************)
(* The days of the returned timetable, checked under Spec.                 *)
(***************************************************************************)
\* The timetable is the one of the basic endpoint: the generator's or the
\* one of generate_fallback_timetable.
BasicBuilt ==
    /\ pc \in {"basic", "fallback", "done"}
    /\ "id" \in DOMAIN timetable
    /\ timetable.id \in {"tt", "fallback"}

\* No unit of the pool could get a session when the day being packed began.
ExhaustedAtDayStart ==
    IF pc = "fallback"
    THEN topic_pool = <<>>
         \/ cursor - 1 - Len(day_schedule.sessions) >= Len(topic_pool)
    ELSE \A i \in 1..Len(topic_pool) :
             HoursNeeded(topic_pool[i]) + GivenToday(i) <= 0

\* C26: the returned daily_schedule has one day schedule for each day of
\* the range, with the day indexes 1, 2, ..., N in this order, N being the
\* requested number of days on the enhanced path and min(requested days,
\* 30) on the basic path, answered without an error; and a day that begins
\* with the pool exhausted gets no session.
C26_DayStructureAndHorizon ==
    /\ (pc = "done" /\ (EnhancedBuilt \/ BasicBuilt)) =>
          /\ response.status = 200
          /\ Len(response.timetable.daily_schedule) =
                IF BasicBuilt THEN Max2(0, Min2(timetable.total_days, 30))
                ELSE timetable.total_days
          /\ \A d \in 1..Len(response.timetable.daily_schedule) :
                response.timetable.daily_schedule[d].day = d
    /\ (Packing /\ ExhaustedAtDayStart) => day_schedule.sessions = <<>>

\* C27: on the enhanced path every session of a subject whose exam date
\* parses is on a day whose calendar date is before the exam date.
C27_SessionsBeforeExam ==
    EnhancedBuilt =>
        \A d \in 1..Len(DaySchedules) :
            \A k \in 1..Len(DaySchedules[d].sessions) :
                LET subject == SubjectOf(DaySchedules[d].sessions[k])
                IN  Dated(subject) =>
                        DaySchedules[d].date < DateOf(strptime(subject.examDate))

(***************************************************************************)
(* The hours of the pool and of the allocation, checked under Spec.        *)
(***************************************************************************)
\* The hours the units of a subject need.
UnitsHours(name) ==
    SumSeq([i \in 1..Len(topic_pool) |->
               IF topic_pool[i].subject = name THEN HoursNeeded(topic_pool[i]) ELSE 0])

\* C28: when the pool has been built, on the enhanced path and on the
\* generator's path, the hours the units of a subject need add up to no
\* more than the subject's hours in subject_hours.
C28_TopicHoursWithinBudget ==
    PoolFresh =>
        \A name \in DOMAIN timetable.subject_hours :
            UnitsHours(name) <= timetable.subject_hours[name]

\* The hours of subject_hours added up, a subject by each of its names.
RECURSIVE SumOfHours(_, _)
SumOfHours(subject_hours, names) ==
    IF names = {} THEN 0
    ELSE LET name == CHOOSE n \in names : TRUE
         IN  subject_hours[name] + SumOfHours(subject_hours, names \ {name})

\* The days remaining of the subjects that are above 0.
PositiveDays ==
    {sorted_subjects[i].days_until_exam : i \in 1..Len(sorted_subjects)}
        \cap {n \in Int : n > 0}

\* C29: on the enhanced path total-days is the smallest days-remaining above
\* 0, raised to 7 and lowered to 60, or 30 when no days-remaining is above
\* 0; total-hours is total-days times the hours per day; and the hours of
\* subject_hours add up to at most total-hours.
C29_AllocationWithinBudget ==
    EnhancedBuilt =>
        /\ timetable.total_days =
              IF PositiveDays = {} THEN 30
              ELSE LET least == CHOOSE n \in PositiveDays :
                                    \A m \in PositiveDays : n <= m
                   IN  Max2(7, Min2(least, 60))
        /\ timetable.total_hours = timetable.total_days * timetable.hours_per_day
        /\ SumOfHours(timetable.subject_hours, DOMAIN timetable.subject_hours)
              <= timetable.total_hours

(***************************************************************************)
(* The hours of a unit while the days are packed, checked under Spec.      *)
(***************************************************************************)
\* The timetable is the generator's.
GeneratorBuilt ==
    /\ pc \in {"basic", "done"}
    /\ "id" \in DOMAIN timetable
    /\ timetable.id = "tt"

\* The pool as it was built, before the first session.
InitialPool ==
    IF EnhancedBuilt
    THEN SortPool(EnhancedPool(sorted_subjects, timetable.subject_hours))
    ELSE BasicPool(subjects, timetable.subject_hours)

\* The hours the sessions gave to a unit of the pool.
Given(sessions, unit) ==
    SumSeq([k \in 1..Len(sessions) |->
               IF sessions[k].unit = unit THEN sessions[k].duration_hours ELSE 0])

\* The hours the sessions of the days gave to a unit of the pool.
GivenOn(days, unit) ==
    SumSeq([d \in 1..Len(days) |-> Given(days[d].sessions, unit)])

\* C30: at every point of the packing, on the enhanced path and on the
\* generator's path, the hours a unit needed when the pool was built are
\* the hours it needs now and the hours of all its sessions so far, those
\* of earlier days included; and every session of the day was given to a
\* unit that needed more than 0 hours before it.
C30_HourConservation ==
    (EnhancedBuilt \/ GeneratorBuilt) =>
        /\ LET initial == InitialPool
               days    == DaySchedules
           IN  /\ Len(topic_pool) = Len(initial)
               /\ \A i \in 1..Len(topic_pool) :
                     HoursNeeded(initial[i]) =
                         HoursNeeded(topic_pool[i]) + GivenOn(days, i)
        /\ Packing =>
              \A k \in 1..Len(day_schedule.sessions) :
                  LET unit == day_schedule.sessions[k].unit
                  IN  HoursNeeded(topic_pool[unit])
                          + Given(SubSeq(day_schedule.sessions, k,
                                         Len(day_schedule.sessions)), unit) > 0

\* A unit that had sessions on earlier days has had its last hours today.
C30_Witness ==
    /\ EnhancedBuilt /\ Packing /\ day >= 1
    /\ \E i \in 1..Len(topic_pool) :
          /\ topic_pool[i].hours_needed = 0
          /\ GivenToday(i) > 0
          /\ GivenOn(timetable.daily_schedule, i) > 0
====
